---------------------------- MODULE Spec2Model ----------------------------
(***************************************************************************)
(* A model of cmd/client-s3.go, the S3 client of mc: address resolution,   *)
(* the four listing routines, Stat, the object operations' error           *)
(* translation and the notification watcher.                               *)
(*                                                                         *)
(* A Go string is the sequence of its bytes, each written as a string of   *)
(* one character (or as the token \xNN where it has no such writing), so   *)
(* that the string functions the code calls (strings.Index,                *)
(* strings.SplitN, filepath.Match, filepath.Join, ...) are computed and    *)
(* not assumed.  A character above ASCII is the bytes of its UTF-8 form.   *)
(***************************************************************************)
EXTENDS Integers, Sequences, FiniteSets, TLC

(***************************************************************************)
(* Bounds of the model.                                                    *)
(***************************************************************************)
\* length of the bucket names the resolver is tried on
MaxBucketLen == 3

\* how many keys a bucket of the backend holds at most
MaxKeys == 3

\* the latest position at which the backend puts an error entry in a stream
MaxFaultAt == 2

\* the most bytes an upload is asked to write
MaxSize == 1

\* how many notifications the subscription of a watch delivers at most
MaxNotifs == 2

\* length of the bucket names validated exhaustively
MaxNameLen == 4

\* how many calls of the factory run at the same time
MaxCalls == 2

(***************************************************************************)
(* Go string functions.                                                    *)
(***************************************************************************)
\* the absent value (nil): every optional value of the model is a record
None == [none |-> TRUE]

\* a probe.Error made by errors.New
errorsNew(msg) == [kind |-> "error", msg |-> msg]

\* s[from:] with a 1-based first position
Drop(s, k) == SubSeq(s, k + 1, Len(s))

Take(s, k) == SubSeq(s, 1, k)

\* strings.HasPrefix
HasPrefix(s, p) == Len(s) >= Len(p) /\ Take(s, Len(p)) = p

\* strings.HasSuffix
HasSuffix(s, p) == Len(s) >= Len(p) /\ Drop(s, Len(s) - Len(p)) = p

\* strings.Index: the 0-based position of the first occurrence, -1 if none
Index(s, sub) ==
    LET hits == {i \in 0..(Len(s) - Len(sub)) : SubSeq(s, i + 1, i + Len(sub)) = sub}
    IN  IF hits = {} THEN -1 ELSE CHOOSE i \in hits : \A j \in hits : i <= j

\* strings.SplitN(s, sep, n) for a one-character sep and n > 0: at most n
\* pieces, the last one the unsplit remainder
RECURSIVE SplitN(_, _, _)
SplitN(s, sep, n) ==
    LET i == Index(s, <<sep>>)
    IN  IF n = 1 \/ i = -1 THEN <<s>>
        ELSE <<Take(s, i)>> \o SplitN(Drop(s, i + 1), sep, n - 1)

\* strings.TrimRight(s, cutset) for a one-character cutset
RECURSIVE TrimRight(_, _)
TrimRight(s, ch) ==
    IF s # <<>> /\ s[Len(s)] = ch THEN TrimRight(Take(s, Len(s) - 1), ch) ELSE s

\* filepath.Match for patterns made of literal characters and '*': a star
\* matches any run of characters that are not the path separator
RECURSIVE Match(_, _)
Match(pattern, name) ==
    IF pattern = <<>> THEN name = <<>>
    ELSE IF Head(pattern) = "*"
         THEN \/ Match(Tail(pattern), name)
              \/ (name # <<>> /\ Head(name) # "/" /\ Match(pattern, Tail(name)))
         ELSE name # <<>> /\ Head(name) = Head(pattern)
              /\ Match(Tail(pattern), Tail(name))

\* Split a path at every separator (the elements filepath.Clean walks)
RECURSIVE Elements(_)
Elements(p) ==
    LET i == Index(p, <<"/">>)
    IN  IF i = -1 THEN <<p>> ELSE <<Take(p, i)>> \o Elements(Drop(p, i + 1))

\* the elements Clean keeps: empty and "." elements go, ".." removes the
\* element before it (at the root it is dropped, elsewhere it is kept)
RECURSIVE CleanElems(_, _, _)
CleanElems(elems, acc, rooted) ==
    IF elems = <<>> THEN acc
    ELSE LET e == Head(elems)
         IN  IF e = <<>> \/ e = <<".">> THEN CleanElems(Tail(elems), acc, rooted)
             ELSE IF e = <<".", ".">>
                  THEN IF acc # <<>> /\ acc[Len(acc)] # <<".", ".">>
                       THEN CleanElems(Tail(elems), Take(acc, Len(acc) - 1), rooted)
                       ELSE IF rooted THEN CleanElems(Tail(elems), acc, rooted)
                            ELSE CleanElems(Tail(elems), Append(acc, e), rooted)
                  ELSE CleanElems(Tail(elems), Append(acc, e), rooted)

RECURSIVE JoinElems(_)
JoinElems(elems) ==
    IF elems = <<>> THEN <<>>
    ELSE IF Len(elems) = 1 THEN Head(elems)
         ELSE Head(elems) \o <<"/">> \o JoinElems(Tail(elems))

\* filepath.Clean (path.Clean) on a unix path
Clean(p) ==
    IF p = <<>> THEN <<".">>
    ELSE LET rooted == Head(p) = "/"
             kept == CleanElems(Elements(p), <<>>, rooted)
             body == JoinElems(kept)
         IN  IF rooted THEN <<"/">> \o body
             ELSE IF body = <<>> THEN <<".">> ELSE body

\* filepath.Join (path.Join): the non-empty arguments joined by the
\* separator and cleaned; the empty string when all are empty
RECURSIVE JoinRaw(_)
JoinRaw(parts) ==
    IF parts = <<>> THEN <<>>
    ELSE IF Head(parts) = <<>> THEN JoinRaw(Tail(parts))
         ELSE LET rest == JoinRaw(Tail(parts))
              IN  IF rest = <<>> THEN Head(parts) ELSE Head(parts) \o <<"/">> \o rest

Join(parts) == IF JoinRaw(parts) = <<>> THEN <<>> ELSE Clean(JoinRaw(parts))

\* the printable characters of ASCII from the blank (32) to the tilde (126);
\* the grave accent (96), which a string here cannot hold, is written as
\* its token
printable ==
    <<" ", "!", "\"", "#", "$", "%", "&", "'", "(", ")", "*", "+", ",", "-", ".", "/",
      "0", "1", "2", "3", "4", "5", "6", "7", "8", "9", ":", ";", "<", "=", ">", "?",
      "@", "A", "B", "C", "D", "E", "F", "G", "H", "I", "J", "K", "L", "M", "N", "O",
      "P", "Q", "R", "S", "T", "U", "V", "W", "X", "Y", "Z", "[", "\\", "]", "^", "_",
      "\\x60", "a", "b", "c", "d", "e", "f", "g", "h", "i", "j", "k", "l", "m", "n", "o",
      "p", "q", "r", "s", "t", "u", "v", "w", "x", "y", "z", "{", "|", "}", "~">>

\* the lower-case hex digits by value
hexLower ==
    <<"0", "1", "2", "3", "4", "5", "6", "7", "8", "9", "a", "b", "c", "d", "e", "f">>

\* the writing of a byte: the character itself when printable, the escape
\* of a string for tab, line feed, form feed and carriage return, else the
\* token \xNN
charOf(byte) ==
    IF byte >= 32 /\ byte <= 126 THEN printable[byte - 31]
    ELSE CASE byte = 9 -> "\t"
           [] byte = 10 -> "\n"
           [] byte = 12 -> "\f"
           [] byte = 13 -> "\r"
           [] OTHER -> "\\x" \o hexLower[(byte \div 16) + 1] \o hexLower[(byte % 16) + 1]

\* the writings of the 256 bytes
bytes == [b \in 0..255 |-> charOf(b)]

\* []byte(s): the byte an element of a string stands for
byteOf(ch) == CHOOSE b \in 0..255 : bytes[b] = ch

\* a < b on strings: byte by byte
RECURSIVE stringLess(_, _)
stringLess(a, b) ==
    IF b = <<>> THEN FALSE
    ELSE IF a = <<>> THEN TRUE
    ELSE IF Head(a) = Head(b) THEN stringLess(Tail(a), Tail(b))
    ELSE byteOf(Head(a)) < byteOf(Head(b))

(***************************************************************************)
(* Characters and host names.                                              *)
(***************************************************************************)
LowerAlnum ==
    {"a", "b", "c", "d", "e", "f", "g", "h", "i", "j", "k", "l", "m", "n", "o",
     "p", "q", "r", "s", "t", "u", "v", "w", "x", "y", "z",
     "0", "1", "2", "3", "4", "5", "6", "7", "8", "9"}

\* the characters strings.TrimSpace removes (unicode.IsSpace), each as the
\* bytes of its UTF-8 form: tab, line feed, vertical tab, form feed,
\* carriage return and blank; U+0085 and U+00A0; U+1680; U+2000 to U+200A,
\* U+2028, U+2029 and U+202F; U+205F; U+3000
Space ==
    {<<charOf(b)>> : b \in {9, 10, 11, 12, 13, 32}}
        \cup {<<charOf(194), charOf(b)>> : b \in {133, 160}}
        \cup {<<charOf(225), charOf(154), charOf(128)>>}
        \cup {<<charOf(226), charOf(128), charOf(b)>> :
                  b \in (128..138) \cup {168, 169, 175}}
        \cup {<<charOf(226), charOf(129), charOf(159)>>}
        \cup {<<charOf(227), charOf(128), charOf(128)>>}

\* strings.TrimSpace: the string without the characters of Space at its
\* head and at its end
RECURSIVE TrimSpace(_)
TrimSpace(str) ==
    IF \E sp \in Space : HasPrefix(str, sp)
    THEN TrimSpace(Drop(str, Len(CHOOSE sp \in Space : HasPrefix(str, sp))))
    ELSE IF \E sp \in Space : HasSuffix(str, sp)
    THEN TrimSpace(Take(str, Len(str) - Len(CHOOSE sp \in Space : HasSuffix(str, sp))))
    ELSE str

amazonHostName ==
    <<"s", "3", ".", "a", "m", "a", "z", "o", "n", "a", "w", "s", ".", "c", "o", "m">>

googleHostName ==
    <<"s", "t", "o", "r", "a", "g", "e", ".", "g", "o", "o", "g", "l", "e",
      "a", "p", "i", "s", ".", "c", "o", "m">>

\* a regional Amazon endpoint, s3-us-west-2.amazonaws.com
amazonRegionHostName ==
    <<"s", "3", "-", "u", "s", "-", "w", "e", "s", "t", "-", "2">>
        \o Drop(amazonHostName, 2)

\* a host that is no provider's: path style
customHostName ==
    <<"p", "l", "a", "y", ".", "m", "i", "n", "i", "o", ".", "i", "o">>

amazonPattern == <<"*", ".", "s", "3", "*", ".">> \o Drop(amazonHostName, 3)

googlePattern == <<"*", ".">> \o googleHostName

\* the marker substrings url2BucketAndObject looks for in the host
s3Marker == <<"s", "3">>

googleMarker == Take(googleHostName, 18)

isAmazon(host) == Match(amazonPattern, host)

isGoogle(host) == Match(googlePattern, host)

isVirtualHostStyle(host) == isAmazon(host) \/ isGoogle(host)

(***************************************************************************)
(* Bucket names.                                                           *)
(***************************************************************************)
\* validBucketName with any character allowed in the last place
validBucketName_AnyLast(name) ==
    /\ Len(name) >= 3
    /\ Len(name) <= 63
    /\ name[1] \in LowerAlnum
    /\ \A i \in 2..Len(name) : name[i] \in LowerAlnum \cup {".", "-"}

\* the regular expression validBucketName
validBucketName(name) ==
    /\ Len(name) >= 3
    /\ Len(name) <= 63
    /\ name[1] \in LowerAlnum
    /\ name[Len(name)] \in LowerAlnum
    /\ \A i \in 2..(Len(name) - 1) : name[i] \in LowerAlnum \cup {".", "-"}

\* isValidBucketName: the error it returns, None for nil
isValidBucketName(bucketName) ==
    IF TrimSpace(bucketName) = <<>>
    THEN errorsNew("Bucket name cannot be empty.")
    ELSE IF Len(bucketName) < 3 \/ Len(bucketName) > 63
         THEN errorsNew("Bucket name should be more than 3 characters and less than 64 characters")
         ELSE IF ~validBucketName(bucketName)
              THEN errorsNew("Bucket name can contain alphabet, '-' and numbers, but first character should be an alphabet or number")
              ELSE None

(***************************************************************************)
(* The client handle and the address resolver.                             *)
(***************************************************************************)
\* newClientURL for an object-storage URL: the separator is '/'
newClientURL(host, path) ==
    [Scheme |-> "https", Host |-> host, Path |-> path, Separator |-> "/"]

\* the handle the factory returns
s3New(host, path) ==
    [targetURL |-> newClientURL(host, path), virtualStyle |-> isVirtualHostStyle(host)]

\* the path url2BucketAndObject splits
effectivePath(c) ==
    LET hostIndex0 == Index(c.targetURL.Host, s3Marker)
        hostIndex == IF hostIndex0 = -1 THEN Index(c.targetURL.Host, googleMarker)
                     ELSE hostIndex0
    IN  IF c.virtualStyle /\ hostIndex > 0
        THEN <<c.targetURL.Separator>> \o Take(c.targetURL.Host, hostIndex - 1)
                 \o c.targetURL.Path
        ELSE c.targetURL.Path

url2BucketAndObject(c) ==
    LET splits == SplitN(effectivePath(c), c.targetURL.Separator, 3)
    IN  CASE Len(splits) = 3 -> [bucketName |-> splits[2], objectName |-> splits[3]]
          [] Len(splits) = 2 -> [bucketName |-> splits[2], objectName |-> <<>>]
          [] OTHER -> [bucketName |-> <<>>, objectName |-> <<>>]

(***************************************************************************)
(* Errors and the values the backend (the minio-go client) hands back.     *)
(***************************************************************************)
\* a backend error: io.EOF itself, or an ErrorResponse with a code
ioEOF == [type |-> "io.EOF"]

ErrorResponse(code) == [type |-> "ErrorResponse", Code |-> code]

\* minio.ToErrorResponse: an error that is no ErrorResponse becomes one
\* with the code InternalError
ToErrorResponse(e) ==
    IF e.type = "ErrorResponse" THEN e ELSE ErrorResponse("InternalError")

\* probe.NewError: nil stays nil, anything else is wrapped unchanged
probeNewError(e) == IF e = None THEN None ELSE [kind |-> "wrapped", cause |-> e]

\* the domain errors
PathInsufficientPermission(path) == [kind |-> "PathInsufficientPermission", Path |-> path]

BucketDoesNotExist(bucket) == [kind |-> "BucketDoesNotExist", Bucket |-> bucket]

BucketInvalid(bucket) == [kind |-> "BucketInvalid", Bucket |-> bucket]

ObjectMissing == [kind |-> "ObjectMissing"]

ObjectAlreadyExists(object) == [kind |-> "ObjectAlreadyExists", Object |-> object]

ObjectAlreadyExistsAsDirectory(object) ==
    [kind |-> "ObjectAlreadyExistsAsDirectory", Object |-> object]

UnexpectedEOF(size, n) ==
    [kind |-> "UnexpectedEOF", TotalSize |-> size, TotalWritten |-> n]

BucketNameEmpty == [kind |-> "BucketNameEmpty"]

BucketNameTopLevel == [kind |-> "BucketNameTopLevel"]

ObjectOnGlacier(object) == [kind |-> "ObjectOnGlacier", Object |-> object]

errInvalidArgument == [kind |-> "InvalidArgument"]

s3StorageClassGlacier == "GLACIER"

\* os.FileMode values of a clientContent
ModeDir == "ModeDir"

ModeTemporary == "ModeTemporary"

ModeFile == "0664"

\* the zero clientURL and the zero clientContent
zeroURL == [Scheme |-> "", Host |-> <<>>, Path |-> <<>>, Separator |-> ""]

zeroContent ==
    [URL |-> zeroURL, Size |-> 0, Time |-> "zero", Type |-> "0", Err |-> None]

\* &clientContent{Err: probe.NewError(e)}
errContent(err) == [zeroContent EXCEPT !.Err = err]

(***************************************************************************)
(* The backend's buckets and keys, and its enumeration calls.              *)
(***************************************************************************)
bkt == <<"b", "k", "t">>

tmp == <<"t", "m", "p">>

\* the keys a bucket can hold: a, dir/ (a zero-size marker), dir/b, and an
\* archived object g
keyA == [Key |-> <<"a">>, Size |-> 1, StorageClass |-> "STANDARD", Stamp |-> "a"]

keyDir ==
    [Key |-> <<"d", "i", "r", "/">>, Size |-> 0, StorageClass |-> "STANDARD",
     Stamp |-> "dir/"]

keyDirB ==
    [Key |-> <<"d", "i", "r", "/", "b">>, Size |-> 2, StorageClass |-> "STANDARD",
     Stamp |-> "dir/b"]

keyG == [Key |-> <<"g">>, Size |-> 3, StorageClass |-> s3StorageClassGlacier, Stamp |-> "g"]

Catalogue == <<keyA, keyDir, keyDirB, keyG>>

\* the key lists a bucket can hold: the catalogue's sub-lists, in key order
RECURSIVE Pick(_, _)
Pick(seq, keep) ==
    IF seq = <<>> THEN <<>>
    ELSE (IF Len(seq) \in keep THEN <<Head(seq)>> ELSE <<>>)
             \o Pick(Tail(seq), keep)

Stores ==
    {Pick(Catalogue, keep) : keep \in {k \in SUBSET (1..Len(Catalogue)) :
                                          Cardinality(k) <= MaxKeys}}

\* minio.ObjectInfo of a stored key, and of a common prefix
objectInfo(k) ==
    [Key |-> k.Key, Size |-> k.Size, LastModified |-> "modified:" \o k.Stamp,
     StorageClass |-> k.StorageClass, Err |-> None]

prefixInfo(key) ==
    [Key |-> key, Size |-> 0, LastModified |-> "zero", StorageClass |-> "", Err |-> None]

errorInfo(e) ==
    [Key |-> <<>>, Size |-> 0, LastModified |-> "zero", StorageClass |-> "", Err |-> e]

\* minio.ObjectMultipartInfo of a key with an upload in progress
multipartInfo(k) ==
    [Key |-> k.Key, Size |-> k.Size, Initiated |-> "initiated:" \o k.Stamp, Err |-> None]

multipartPrefixInfo(key) ==
    [Key |-> key, Size |-> 0, Initiated |-> "zero", Err |-> None]

multipartErrorInfo(e) ==
    [Key |-> <<>>, Size |-> 0, Initiated |-> "zero", Err |-> e]

\* the common prefix of a key under a prefix: up to and including the first
\* separator after the prefix; the empty string if there is none
commonPrefix(key, prefix) ==
    LET i == Index(Drop(key, Len(prefix)), <<"/">>)
    IN  IF i = -1 THEN <<>> ELSE Take(key, Len(prefix) + i + 1)

RECURSIVE Dedup(_, _)
Dedup(seq, seen) ==
    IF seq = <<>> THEN <<>>
    ELSE IF Head(seq) \in seen THEN Dedup(Tail(seq), seen)
         ELSE <<Head(seq)>> \o Dedup(Tail(seq), seen \cup {Head(seq)})

RECURSIVE Map(_, _)
Map(Op(_), seq) == IF seq = <<>> THEN <<>> ELSE <<Op(Head(seq))>> \o Map(Op, Tail(seq))

\* what the service lists for a bucket's keys under a prefix: every matching
\* key when recursive; else (delimiter "/") the keys with no separator after
\* the prefix, then one entry per common prefix
serviceList(keys, prefix, isRecursive, Info(_), PrefixInfo(_)) ==
    LET matching == SelectSeq(keys, LAMBDA k : HasPrefix(k.Key, prefix))
        direct == SelectSeq(matching, LAMBDA k : commonPrefix(k.Key, prefix) = <<>>)
        grouped == SelectSeq(matching, LAMBDA k : commonPrefix(k.Key, prefix) # <<>>)
        prefixes == Dedup(Map(LAMBDA k : commonPrefix(k.Key, prefix), grouped), {})
    IN  IF isRecursive THEN Map(Info, matching)
        ELSE Map(Info, direct) \o Map(PrefixInfo, prefixes)

\* an error entry put in the stream as its at-th entry (at = 0: none)
withFault(entries, at, errEntry) ==
    IF at = 0 \/ at > Len(entries) + 1 THEN entries
    ELSE Take(entries, at - 1) \o <<errEntry>> \o Drop(entries, at - 1)

(***************************************************************************)
(* The bodies of the listing routines' loops.  Each gives the item the     *)
(* iteration sends (None if it sends nothing) and whether the routine      *)
(* returns after it.                                                       *)
(***************************************************************************)
sep(c) == <<c.targetURL.Separator>>

withPath(url, path) == [url EXCEPT !.Path = path]

step(item, ret) == [item |-> item, ret |-> ret]

\* the resolved URL of a key in the bucket/prefix scoped loops
keyURL(c, b, key) ==
    withPath(c.targetURL,
             IF c.virtualStyle THEN Join(<<sep(c), key>>) ELSE Join(<<sep(c), b, key>>))

\* the resolved URL of a key in the root scoped loops of the recursive routines
rootKeyURL(c, bucketName, key) ==
    withPath(c.targetURL, Join(<<c.targetURL.Path, bucketName, key>>))

\* listIncompleteObject with the upload sent as a plain file
listIncompleteObject_AsFile(c, b, object) ==
    IF object.Err # None THEN step(errContent(probeNewError(object.Err)), TRUE)
    ELSE IF HasSuffix(object.Key, sep(c))
         THEN step([zeroContent EXCEPT !.URL = keyURL(c, b, object.Key),
                                       !.Time = "now", !.Type = ModeDir], FALSE)
         ELSE step([zeroContent EXCEPT !.URL = keyURL(c, b, object.Key),
                                       !.Size = object.Size,
                                       !.Time = object.Initiated,
                                       !.Type = ModeFile], FALSE)

\* listIncompleteInRoutine, either loop
listIncompleteObject(c, b, object) ==
    IF object.Err # None THEN step(errContent(probeNewError(object.Err)), TRUE)
    ELSE IF HasSuffix(object.Key, sep(c))
         THEN step([zeroContent EXCEPT !.URL = keyURL(c, b, object.Key),
                                       !.Time = "now", !.Type = ModeDir], FALSE)
         ELSE step([zeroContent EXCEPT !.URL = keyURL(c, b, object.Key),
                                       !.Size = object.Size,
                                       !.Time = object.Initiated,
                                       !.Type = ModeTemporary], FALSE)

\* listIncompleteRecursiveInRoutine, the root scoped loop
listIncompleteRecursiveRootObject(c, b, object) ==
    IF object.Err # None THEN step(errContent(probeNewError(object.Err)), TRUE)
    ELSE step([zeroContent EXCEPT !.URL = rootKeyURL(c, b, object.Key),
                                  !.Size = object.Size,
                                  !.Time = object.Initiated,
                                  !.Type = ModeTemporary], FALSE)

\* listIncompleteRecursiveInRoutine, the bucket/prefix scoped loop
listIncompleteRecursiveObject(c, b, object) ==
    IF object.Err # None THEN step(errContent(probeNewError(object.Err)), TRUE)
    ELSE step([zeroContent EXCEPT !.URL = keyURL(c, b, object.Key),
                                  !.Size = object.Size,
                                  !.Time = object.Initiated,
                                  !.Type = ModeTemporary], FALSE)

\* listObject with the separator-suffix case lost: every key becomes a file
listObject_NoDirectory(c, b, object) ==
    IF object.Err # None THEN step(errContent(probeNewError(object.Err)), TRUE)
    ELSE step([zeroContent EXCEPT !.URL = keyURL(c, b, object.Key),
                                  !.Size = object.Size,
                                  !.Time = object.LastModified,
                                  !.Type = ModeFile], FALSE)

\* listInRoutine, the bucket/prefix scoped loop
listObject(c, b, object) ==
    IF object.Err # None THEN step(errContent(probeNewError(object.Err)), TRUE)
    ELSE IF HasSuffix(object.Key, sep(c))
         THEN step([zeroContent EXCEPT !.URL = keyURL(c, b, object.Key),
                                       !.Time = "now", !.Type = ModeDir], FALSE)
         ELSE step([zeroContent EXCEPT !.URL = keyURL(c, b, object.Key),
                                       !.Size = object.Size,
                                       !.Time = object.LastModified,
                                       !.Type = ModeFile], FALSE)

\* listRecursiveInRoutine, the root scoped loop
listRecursiveRootObject(c, b, object) ==
    IF object.StorageClass = s3StorageClassGlacier
    THEN step(errContent(ObjectOnGlacier(object.Key)), FALSE)
    ELSE IF object.Err # None
         THEN step(errContent(probeNewError(object.Err)), FALSE)
         ELSE step([zeroContent EXCEPT !.URL = rootKeyURL(c, b, object.Key),
                                       !.Size = object.Size,
                                       !.Time = object.LastModified,
                                       !.Type = ModeFile], FALSE)

\* listRecursiveObject with the "ignore S3 empty directories" test lost
listRecursiveObject_NoSkip(c, b, object) ==
    IF object.Err # None THEN step(errContent(probeNewError(object.Err)), FALSE)
    ELSE step([zeroContent EXCEPT !.URL = keyURL(c, b, object.Key),
                                  !.Size = object.Size,
                                  !.Time = object.LastModified,
                                  !.Type = ModeFile], FALSE)

\* listRecursiveInRoutine, the bucket/prefix scoped loop
listRecursiveObject(c, b, object) ==
    IF object.Err # None THEN step(errContent(probeNewError(object.Err)), FALSE)
    ELSE IF object.Size = 0 /\ HasSuffix(object.Key, <<"/">>) THEN step(None, FALSE)
         ELSE step([zeroContent EXCEPT !.URL = keyURL(c, b, object.Key),
                                       !.Size = object.Size,
                                       !.Time = object.LastModified,
                                       !.Type = ModeFile], FALSE)

\* the Directory item of a bucket in a root scoped listing
bucketContent(c, bucket) ==
    [zeroContent EXCEPT !.URL = withPath(c.targetURL,
                                         Join(<<c.targetURL.Path, bucket.Name>>)),
                        !.Time = bucket.CreationDate, !.Type = ModeDir]

\* the Directory item of the target bucket itself (listInRoutine)
targetBucketContent(c, bucket) ==
    [zeroContent EXCEPT !.URL = c.targetURL,
                        !.Time = bucket.CreationDate, !.Type = ModeDir]

\* the four routines List starts, by its arguments
routineOf(recursive, incomplete) ==
    IF incomplete
    THEN IF recursive THEN "listIncompleteRecursiveInRoutine"
         ELSE "listIncompleteInRoutine"
    ELSE IF recursive THEN "listRecursiveInRoutine" ELSE "listInRoutine"

Routines == {routineOf(r, i) : r \in BOOLEAN, i \in BOOLEAN}

isRecursiveOf(routine) ==
    routine \in {"listRecursiveInRoutine", "listIncompleteRecursiveInRoutine"}

isIncompleteOf(routine) ==
    routine \in {"listIncompleteInRoutine", "listIncompleteRecursiveInRoutine"}

\* the loop body a routine runs on an entry, root scoped or not
loopBody(routine, root, c, b, object) ==
    CASE routine = "listInRoutine" -> listObject(c, b, object)
      [] routine = "listIncompleteInRoutine" -> listIncompleteObject(c, b, object)
      [] routine = "listRecursiveInRoutine" /\ root -> listRecursiveRootObject(c, b, object)
      [] routine = "listRecursiveInRoutine" /\ ~root -> listRecursiveObject(c, b, object)
      [] routine = "listIncompleteRecursiveInRoutine" /\ root ->
             listIncompleteRecursiveRootObject(c, b, object)
      [] OTHER -> listIncompleteRecursiveObject(c, b, object)

(***************************************************************************)
(* State.                                                                  *)
(***************************************************************************)
VARIABLES
    client,      \* the handle: targetURL and virtualStyle
    rin,         \* resolver: the bucket, provider host and object key the
                 \* target was built from
    resolved,    \* resolver: what url2BucketAndObject returned, None before
    backend,     \* the service behind c.api: its buckets, their keys and
                 \* uploads in progress, the error ListBuckets returns and
                 \* the buckets it returns with it, where a stream gets an
                 \* error
    mutex,       \* c.mutex: "free" or the method that holds it
    lpc,         \* the caller of List: "idle", "inList", "returned"
    routine,     \* the routine List started, "" before
    ppc,         \* the routine: "idle", "start", "buckets", "list",
                 \* "objects", "send", "return", "done"
    after,       \* where the routine goes on once its send is received
    bucketsLeft, \* the buckets the routine has still to range over
    curBucket,   \* the bucket whose entries the routine ranges over
    entriesLeft, \* the entries the backend stream has still to deliver
    offer,       \* the item the routine is sending on contentCh, or None
    chClosed,    \* contentCh is closed
    received,    \* the items the caller received from contentCh
    log,         \* per backend entry handled: the entry, the item sent for
                 \* it (or None) and whether the routine returned on it
    spc,         \* the caller of Stat: "idle", "inStat", "returned"
    statOut,     \* what Stat returned, None before
    opOut,       \* the object operation called, its arguments and what it
                 \* returned; None before
    wOut,        \* Watch: its arguments and what it returned; None before
    listenArgs,  \* the arguments ListenBucketNotification was called with,
                 \* None while it was not called
    doneChanClosed, \* the caller closed the done channel of the watchObject
    doneChClosed,   \* doneCh, the done channel of the subscription, is closed
    eventChanClosed, \* eventChan is closed
    errorChanClosed, \* errorChan is closed
    supc,        \* the task that waits for doneChan: "idle", "wait",
                 \* "closeEvent", "closeError", "done"
    fpc,         \* the task that forwards: "idle", "range", "records",
                 \* "sendEvent", "sendError", "exit", "panic"
    notifs,      \* the notifications the subscription has still to deliver
    eventsChClosed, \* eventsCh, the channel of the subscription, is closed
    recordsLeft, \* the records of the notification being forwarded
    sending,     \* the value the forwarder is sending, None otherwise
    events,      \* the events the caller received from eventChan
    errors,      \* the errors the caller received from errorChan
    clientCache, \* the factory: confSum -> the backend client cached for it
    factoryMutex, \* the factory's mutex: 0 if free, else the call that holds it
    factoryCalls, \* the factory calls: position, config, locals and result
    heap,        \* how many objects were allocated (an object's address is
                 \* its number)
    constructed  \* the backend clients minio.New made: address and confSum

resolverVars == <<rin, resolved>>

listVars ==
    <<backend, mutex, lpc, routine, ppc, after, bucketsLeft, curBucket,
      entriesLeft, offer, chClosed, received, log>>

\* the variables of List and its routine
listingVars ==
    <<mutex, lpc, routine, ppc, after, bucketsLeft, curBucket, entriesLeft, offer,
      chClosed, received, log>>

statVars == <<spc, statOut>>

watchVars ==
    <<wOut, listenArgs, doneChanClosed, doneChClosed, eventChanClosed,
      errorChanClosed, supc, fpc, notifs, eventsChClosed, recordsLeft, sending,
      events, errors>>

factoryVars == <<clientCache, factoryMutex, factoryCalls, heap, constructed>>

vars == <<client, factoryVars, resolverVars, listVars, statVars, opOut, watchVars>>

\* what the actions of List and its routines leave alone
aside == <<client, factoryVars, resolverVars, statVars, opOut, watchVars>>

noClient == s3New(<<>>, <<>>)

\* a backend with no buckets that answers every call without an error
noBackend ==
    [buckets |-> <<>>, keys |-> <<>>, uploads |-> <<>>, listBucketsErr |-> None,
     bucketsWithErr |-> <<>>,
     existsErr |-> None,
     faultAt |-> 0, fault |-> None, opErr |-> None, written |-> 0]

StatIdle == spc = "idle" /\ statOut = None

OpsIdle == opOut = None

WatchIdle ==
    /\ wOut = None
    /\ listenArgs = None
    /\ doneChanClosed = FALSE
    /\ doneChClosed = FALSE
    /\ eventChanClosed = FALSE
    /\ errorChanClosed = FALSE
    /\ supc = "idle"
    /\ fpc = "idle"
    /\ notifs = <<>>
    /\ eventsChClosed = FALSE
    /\ recordsLeft = <<>>
    /\ sending = None
    /\ events = <<>>
    /\ errors = <<>>

ResolverIdle == rin = None /\ resolved = None

FactoryIdle ==
    /\ clientCache = {}
    /\ factoryMutex = 0
    /\ factoryCalls = <<>>
    /\ heap = 0
    /\ constructed = <<>>

ListIdle ==
    /\ backend = noBackend
    /\ mutex = "free"
    /\ lpc = "idle"
    /\ routine = ""
    /\ ppc = "idle"
    /\ after = ""
    /\ bucketsLeft = <<>>
    /\ curBucket = <<>>
    /\ entriesLeft = <<>>
    /\ offer = None
    /\ chClosed = FALSE
    /\ received = <<>>
    /\ log = <<>>

(***************************************************************************)
(* The address resolver on virtual-host targets.                           *)
(***************************************************************************)
BucketChars == {"b", "s", "3", "."}

\* all strings over a set of characters, of length lo..hi
Strings(chars, lo, hi) == UNION {[1..n -> chars] : n \in lo..hi}

ResolverBuckets ==
    {b \in Strings(BucketChars, 3, MaxBucketLen) : isValidBucketName(b) = None}

ProviderHosts == {amazonHostName, amazonRegionHostName, googleHostName}

ObjectKeys == {<<>>, <<"o">>, <<"d", "/", "o">>, <<"d", "/">>}

virtualHost(bucket, provider) == bucket \o <<".">> \o provider

InitResolve ==
    /\ FactoryIdle
    /\ rin \in [bucket : ResolverBuckets, provider : ProviderHosts, object : ObjectKeys]
    /\ client = s3New(virtualHost(rin.bucket, rin.provider), <<"/">> \o rin.object)
    /\ resolved = None
    /\ ListIdle
    /\ StatIdle
    /\ OpsIdle
    /\ WatchIdle

\* a caller resolves the target of its handle
Resolve ==
    /\ resolved = None
    /\ resolved' = url2BucketAndObject(client)
    /\ UNCHANGED <<client, factoryVars, rin, listVars, statVars, opOut, watchVars>>

NextResolve == Resolve

SpecResolve == InitResolve /\ [][NextResolve]_vars

\* path-style resolution of /<bucket>/<object> on a host of no provider
pathStyle(bucket, object) ==
    url2BucketAndObject(s3New(customHostName,
                              <<"/">> \o bucket \o <<"/">> \o object))

\* C2: on a host <bucket>.<provider host> that matches a virtual-host
\* pattern, url2BucketAndObject returns the pair that path-style resolution
\* of /<bucket>/<object> returns.
C2_VirtualEqualsPathStyle ==
    (resolved # None /\ client.virtualStyle)
        => resolved = pathStyle(rin.bucket, rin.object)

(***************************************************************************)
(* isValidBucketName over the names a caller can give.                     *)
(***************************************************************************)
NameChars == {"a", "0", "A", ".", "-", " ", "\t"}

\* names of 62 to 65 characters: letters only, ending in '-', holding 'A'
LongNames ==
    UNION {{[i \in 1..n |-> "a"],
            [i \in 1..n |-> IF i = n THEN "-" ELSE "a"],
            [i \in 1..n |-> IF i = 2 THEN "A" ELSE "a"],
            [i \in 1..n |-> IF i = 2 THEN "." ELSE "0"]} : n \in 62..65}

\* names that hold the other characters TrimSpace removes
SpaceNames ==
    Space \cup {sp \o sp \o sp : sp \in Space}
        \cup {<<"a">> \o sp : sp \in Space}
        \cup {sp \o <<"a", "b", "c">> \o sp : sp \in Space}
        \cup {<<charOf(10), charOf(11), charOf(194), charOf(133)>>,
              <<charOf(194), charOf(128)>>, <<charOf(128), charOf(128), charOf(128)>>}

NameInputs == Strings(NameChars, 0, MaxNameLen) \cup LongNames \cup SpaceNames

InitBucketName ==
    /\ FactoryIdle
    /\ rin \in [name : NameInputs]
    /\ resolved = None
    /\ client = noClient
    /\ ListIdle
    /\ StatIdle
    /\ OpsIdle
    /\ WatchIdle

\* a caller validates the name
Validate ==
    /\ resolved = None
    /\ resolved' = [err |-> isValidBucketName(rin.name)]
    /\ UNCHANGED <<client, factoryVars, rin, listVars, statVars, opOut, watchVars>>

NextBucketName == Validate

SpecBucketName == InitBucketName /\ [][NextBucketName]_vars

\* the names of the rule: 3 to 63 characters, each a lowercase letter, a
\* digit, '.' or '-', the first and the last a lowercase letter or a digit
ruleAccepts(name) ==
    /\ Len(name) \in 3..63
    /\ \A i \in 1..Len(name) : name[i] \in LowerAlnum \cup {".", "-"}
    /\ name[1] \in LowerAlnum /\ name[Len(name)] \in LowerAlnum

\* C17: isValidBucketName returns no error exactly for the names of the
\* rule; every other string (the empty one, blanks, "ab", "ABC") is rejected.
C17_BucketNameRule ==
    resolved # None => ((resolved.err = None) <=> ruleAccepts(rin.name))

\* C17 happens: a name of 63 characters accepted
C17_Witness ==
    /\ resolved # None
    /\ rin.name = [i \in 1..63 |-> "a"]
    /\ resolved.err = None

(***************************************************************************)
(* List and its four routines.                                             *)
(***************************************************************************)
\* the keys the backend holds for a bucket
keysOf(bucket) ==
    LET hits == {i \in 1..Len(backend.buckets) : backend.buckets[i].Name = bucket}
    IN  IF hits = {} THEN <<>> ELSE backend.keys[CHOOSE i \in hits : TRUE]

\* c.listObjectWrapper: the stream ListObjects / ListObjectsV2 delivers
listObjectWrapper(bucket, object, isRecursive) ==
    withFault(serviceList(keysOf(bucket), object, isRecursive, objectInfo, prefixInfo),
              backend.faultAt, errorInfo(backend.fault))

\* the uploads in progress the backend holds for a bucket
uploadsOf(bucket) ==
    LET hits == {i \in 1..Len(backend.buckets) : backend.buckets[i].Name = bucket}
    IN  IF hits = {} THEN <<>> ELSE backend.uploads[CHOOSE i \in hits : TRUE]

\* c.api.ListIncompleteUploads: the stream of the uploads in progress
ListIncompleteUploads(bucket, object, isRecursive) ==
    withFault(serviceList(uploadsOf(bucket), object, isRecursive, multipartInfo,
                          multipartPrefixInfo),
              backend.faultAt, multipartErrorInfo(backend.fault))

\* the backend stream a routine ranges over for a bucket and prefix
enumerate(rt, bucket, object) ==
    IF isIncompleteOf(rt) THEN ListIncompleteUploads(bucket, object, isRecursiveOf(rt))
    ELSE listObjectWrapper(bucket, object, isRecursiveOf(rt))

\* the switch of the routines: root scoped, the target bucket itself
\* (listInRoutine only), or bucket/prefix scoped
isRoot(c) ==
    LET bo == url2BucketAndObject(c)
    IN  bo.bucketName = <<>> /\ bo.objectName = <<>>

isBucketOnly(rt, c) ==
    LET bo == url2BucketAndObject(c)
    IN  /\ rt = "listInRoutine"
        /\ bo.bucketName # <<>>
        /\ ~HasSuffix(c.targetURL.Path, sep(c))
        /\ bo.objectName = <<>>

\* List: takes the lock, makes contentCh and starts the routine
ListEnter ==
    /\ lpc = "idle"
    /\ mutex = "free"
    /\ mutex' = "List"
    /\ lpc' = "inList"
    /\ \E recursive \in BOOLEAN, incomplete \in BOOLEAN :
           routine' = routineOf(recursive, incomplete)
    /\ ppc' = "start"
    /\ UNCHANGED <<aside, backend, after, bucketsLeft, curBucket,
                   entriesLeft, offer, chClosed, received, log>>

\* List that returns contentCh with the lock still held
ListReturn_KeepsLock ==
    /\ lpc = "inList"
    /\ lpc' = "returned"
    /\ UNCHANGED <<aside, backend, mutex, routine, ppc, after, bucketsLeft,
                   curBucket, entriesLeft, offer, chClosed, received, log>>

\* List: returns contentCh; the deferred Unlock runs
ListReturn ==
    /\ lpc = "inList"
    /\ mutex' = "free"
    /\ lpc' = "returned"
    /\ UNCHANGED <<aside, backend, routine, ppc, after, bucketsLeft,
                   curBucket, entriesLeft, offer, chClosed, received, log>>

\* a send that does not wait for the receiver
sends_NoWait(item, next) == offer' = item /\ ppc' = next /\ UNCHANGED after

\* the routine starts to send an item
sends(item, next) == offer' = item /\ ppc' = "send" /\ after' = next

goes(next) == ppc' = next /\ UNCHANGED <<offer, after>>

\* c.api.ListBuckets: the buckets and the error it returns; what it returns
\* beside an error is the backend's to choose
ListBuckets ==
    [buckets |-> IF backend.listBucketsErr = None THEN backend.buckets
                 ELSE backend.bucketsWithErr,
     err |-> backend.listBucketsErr]

\* the head of a routine: url2BucketAndObject, the switch, ListBuckets.  Root
\* scoped, a routine returns after the error item of ListBuckets; in the
\* case of the target bucket itself listInRoutine sends the error item and
\* goes on to the loop over the buckets ListBuckets returned
routineStart ==
    /\ ppc = "start"
    /\ LET bo == url2BucketAndObject(client)
       IN  CASE isRoot(client) ->
                  IF ListBuckets.err # None
                  THEN /\ sends(errContent(probeNewError(ListBuckets.err)), "return")
                       /\ UNCHANGED <<bucketsLeft, entriesLeft, curBucket>>
                  ELSE /\ goes("buckets")
                       /\ bucketsLeft' = ListBuckets.buckets
                       /\ UNCHANGED <<entriesLeft, curBucket>>
             [] isBucketOnly(routine, client) ->
                  /\ IF ListBuckets.err # None
                     THEN sends(errContent(probeNewError(ListBuckets.err)), "buckets")
                     ELSE goes("buckets")
                  /\ bucketsLeft' = ListBuckets.buckets
                  /\ UNCHANGED <<entriesLeft, curBucket>>
             [] OTHER ->
                  /\ goes("objects")
                  /\ curBucket' = bo.bucketName
                  /\ entriesLeft' = enumerate(routine, bo.bucketName, bo.objectName)
                  /\ UNCHANGED bucketsLeft
    /\ UNCHANGED <<aside, backend, mutex, lpc, routine, chClosed,
                   received, log>>

\* one iteration of the loop over the buckets: root scoped, or (in
\* listInRoutine) in search of the target bucket, where the loop ends at the
\* bucket of that name
routineNextBucket ==
    /\ ppc = "buckets"
    /\ IF bucketsLeft = <<>>
       THEN goes("return") /\ UNCHANGED <<bucketsLeft, entriesLeft, curBucket>>
       ELSE LET bucket == Head(bucketsLeft)
            IN  /\ bucketsLeft' = Tail(bucketsLeft)
                /\ CASE isBucketOnly(routine, client) ->
                          /\ IF bucket.Name = url2BucketAndObject(client).bucketName
                             THEN sends(targetBucketContent(client, bucket), "return")
                             ELSE goes("buckets")
                          /\ UNCHANGED <<entriesLeft, curBucket>>
                     [] routine = "listInRoutine" ->
                          /\ sends(bucketContent(client, bucket), "buckets")
                          /\ UNCHANGED <<entriesLeft, curBucket>>
                     [] routine = "listRecursiveInRoutine" ->
                          /\ sends(bucketContent(client, bucket), "list")
                          /\ curBucket' = bucket.Name
                          /\ UNCHANGED entriesLeft
                     [] OTHER ->
                          /\ goes("objects")
                          /\ curBucket' = bucket.Name
                          /\ entriesLeft' = enumerate(routine, bucket.Name, <<>>)
    /\ UNCHANGED <<aside, backend, mutex, lpc, routine, chClosed,
                   received, log>>

\* listRecursiveInRoutine, root scoped: once the item of the bucket is
\* received it asks the backend for the objects of the bucket
routineListBucket ==
    /\ ppc = "list"
    /\ goes("objects")
    /\ entriesLeft' = enumerate(routine, curBucket, <<>>)
    /\ UNCHANGED <<aside, backend, mutex, lpc, routine, bucketsLeft, curBucket,
                   chClosed, received, log>>

\* one iteration of a loop that writes the path of the item on the handle's
\* address itself (url taken as c.targetURL, not as a copy of it)
routineNextEntry_InPlace ==
    /\ ppc = "objects"
    /\ IF entriesLeft = <<>>
       THEN /\ goes(IF isRoot(client) THEN "buckets" ELSE "return")
            /\ UNCHANGED <<entriesLeft, log, client>>
       ELSE LET object == Head(entriesLeft)
                did == loopBody(routine, isRoot(client), client, curBucket, object)
                next == IF did.ret THEN "return" ELSE "objects"
            IN  /\ entriesLeft' = Tail(entriesLeft)
                /\ log' = Append(log, [entry |-> object, item |-> did.item, ret |-> did.ret])
                /\ IF did.item # None /\ did.item.Err = None
                   THEN client' = [client EXCEPT !.targetURL = did.item.URL]
                   ELSE UNCHANGED client
                /\ IF did.item # None THEN sends(did.item, next) ELSE goes(next)
    /\ UNCHANGED <<factoryVars, resolverVars, statVars, opOut, watchVars, backend,
                   mutex, lpc,
                   routine, bucketsLeft, curBucket, chClosed, received>>

\* one iteration of a loop over a backend stream
routineNextEntry ==
    /\ ppc = "objects"
    /\ IF entriesLeft = <<>>
       THEN /\ goes(IF isRoot(client) THEN "buckets" ELSE "return")
            /\ UNCHANGED <<entriesLeft, log>>
       ELSE LET object == Head(entriesLeft)
                did == loopBody(routine, isRoot(client), client, curBucket, object)
                next == IF did.ret THEN "return" ELSE "objects"
            IN  /\ entriesLeft' = Tail(entriesLeft)
                /\ log' = Append(log, [entry |-> object, item |-> did.item, ret |-> did.ret])
                /\ IF did.item # None THEN sends(did.item, next) ELSE goes(next)
    /\ UNCHANGED <<aside, backend, mutex, lpc, routine, bucketsLeft,
                   curBucket, chClosed, received>>

\* the caller receives the item the routine is sending
Receive ==
    /\ ppc = "send"
    /\ lpc = "returned"
    /\ received' = Append(received, offer)
    /\ offer' = None
    /\ ppc' = after
    /\ after' = ""
    /\ UNCHANGED <<aside, backend, mutex, lpc, routine, bucketsLeft,
                   curBucket, entriesLeft, chClosed, log>>

\* a routine that returns without the deferred close(contentCh)
routineReturn_NoClose ==
    /\ ppc = "return"
    /\ ppc' = "done"
    /\ UNCHANGED <<aside, backend, mutex, lpc, routine, after, chClosed,
                   bucketsLeft, curBucket, entriesLeft, offer, received, log>>

\* the routine returns: the deferred close(contentCh) runs
routineReturn ==
    /\ ppc = "return"
    /\ chClosed' = TRUE
    /\ ppc' = "done"
    /\ UNCHANGED <<aside, backend, mutex, lpc, routine, after,
                   bucketsLeft, curBucket, entriesLeft, offer, received, log>>

\* the targets listed: the root, a bucket without and with the trailing
\* separator, a prefix, a bucket on a virtual-host address, and the
\* virtual-host address with no bucket in it
ListTargets ==
    {s3New(customHostName, <<"/">>),
     s3New(customHostName, <<"/">> \o bkt),
     s3New(customHostName, <<"/">> \o bkt \o <<"/">>),
     s3New(customHostName, <<"/">> \o bkt \o <<"/", "d", "i", "r", "/">>),
     s3New(virtualHost(bkt, amazonHostName), <<"/">>),
     s3New(virtualHost(<<>>, amazonHostName), <<"/">>)}

bucketInfo(name, stamp) == [Name |-> name, CreationDate |-> "created:" \o stamp]

Backends ==
    {[noBackend EXCEPT !.buckets = bs, !.keys = ks, !.uploads = ks,
                       !.listBucketsErr = e,
                       !.bucketsWithErr = IF e # None /\ some THEN bs ELSE <<>>,
                       !.faultAt = at, !.fault = ErrorResponse("InternalError")] :
        bs \in {<<bucketInfo(bkt, "bkt")>>,
                <<bucketInfo(bkt, "bkt"), bucketInfo(tmp, "tmp")>>},
        ks \in {<<k1, k2>> : k1 \in Stores, k2 \in {<<>>, <<keyA, keyG>>}},
        e \in {None, ErrorResponse("AccessDenied")},
        some \in BOOLEAN,
        at \in 0..MaxFaultAt}

InitList ==
    /\ FactoryIdle
    /\ client \in ListTargets
    /\ ResolverIdle
    /\ backend \in Backends
    /\ mutex = "free"
    /\ lpc = "idle"
    /\ routine = ""
    /\ ppc = "idle"
    /\ after = ""
    /\ bucketsLeft = <<>>
    /\ curBucket = <<>>
    /\ entriesLeft = <<>>
    /\ offer = None
    /\ chClosed = FALSE
    /\ received = <<>>
    /\ log = <<>>
    /\ StatIdle
    /\ OpsIdle
    /\ WatchIdle

NextList ==
    \/ ListEnter
    \/ ListReturn
    \/ routineStart
    \/ routineNextBucket
    \/ routineListBucket
    \/ routineNextEntry
    \/ Receive
    \/ routineReturn

SpecList == InitList /\ [][NextList]_vars

(***************************************************************************)
(* Properties of the listings.                                             *)
(***************************************************************************)
\* the steps of the routine List started
producer ==
    \/ routineStart
    \/ routineNextBucket
    \/ routineListBucket
    \/ routineNextEntry
    \/ routineReturn

\* the routine can take a step: it is started, not at a send and not done
producerEnabled == ppc \in {"start", "buckets", "list", "objects", "return"}

\* List returns once called, the caller keeps reading the stream, and the
\* scheduler runs the routine while it can run: weak fairness of producer,
\* with the condition under which it is enabled written out
FairSpecList ==
    /\ SpecList
    /\ WF_vars(ListReturn)
    /\ WF_vars(Receive)
    /\ ([]<>(~producerEnabled) \/ []<><<producer>>_vars)

\* C26: with a caller that keeps reading, the stream of every List call,
\* whichever routine runs it, gets closed; it is closed by the return of its
\* own routine and by nothing else, the routine takes no step after it, and
\* no item is delivered once it is closed.
C26_StreamClosedOnce ==
    /\ (routine # "") ~> chClosed
    /\ [][(~chClosed /\ chClosed') => (ppc = "return" /\ ppc' = "done")]_vars
    /\ [][chClosed => (chClosed' /\ ppc' = "done" /\ offer' = None
                          /\ received' = received)]_vars

\* C26 happens: the caller has read two items and the stream is closed
C26_Witness ==
    /\ chClosed
    /\ ppc = "done"
    /\ Len(received) >= 2
    /\ offer = None

\* the target is a bucket (no object key), and the bucket is bkt
targetsBucket ==
    url2BucketAndObject(client) = [bucketName |-> bkt, objectName |-> <<>>]

\* the backend answers without errors and bkt holds a, dir/ and dir/b
plainBucket ==
    /\ backend.listBucketsErr = None
    /\ backend.faultAt = 0
    /\ keysOf(bkt) = <<keyA, keyDir, keyDirB>>

\* the path of a key of bkt under the target's addressing style
pathInBkt(key) ==
    (IF client.virtualStyle THEN <<>> ELSE <<"/">> \o bkt) \o <<"/">> \o key

isMarker(object) == object.Size = 0 /\ HasSuffix(object.Key, sep(client))

\* C3: in every recursive listing, root scoped or bucket/prefix scoped, an
\* entry of storage class GLACIER gives one item that carries only an
\* ObjectOnGlacier error, no metadata item, and the routine goes on.
C3_GlacierReported ==
    routine = "listRecursiveInRoutine" =>
        \A i \in 1..Len(log) :
            log[i].entry.StorageClass = s3StorageClassGlacier =>
                /\ log[i].item = errContent(ObjectOnGlacier(log[i].entry.Key))
                /\ ~log[i].ret

\* C4: in a non-recursive enumeration, complete or incomplete, an entry with
\* an error gives one error item and the enumeration continues: when the
\* stream closes, no backend entry is left unhandled.
C4_FlatContinuesAfterError ==
    routine \in {"listInRoutine", "listIncompleteInRoutine"} =>
        /\ \A i \in 1..Len(log) :
               log[i].entry.Err # None =>
                   log[i].item = errContent(probeNewError(log[i].entry.Err))
        /\ chClosed => entriesLeft = <<>>

\* C6: a recursive bucket/prefix listing sends no item for a zero-size key
\* that ends in the separator; of a, dir/ and dir/b it delivers exactly the
\* Object items of a and dir/b.
C6_RecursiveSkipsMarkers ==
    (routine = "listRecursiveInRoutine" /\ ~isRoot(client)) =>
        /\ \A i \in 1..Len(log) :
               (log[i].entry.Err = None /\ isMarker(log[i].entry)) => log[i].item = None
        /\ \A i \in 1..Len(received) :
               received[i].Err # None \/ received[i].URL.Path # pathInBkt(TrimRight(keyDir.Key, "/"))
        /\ (targetsBucket /\ plainBucket /\ chClosed) =>
               /\ Len(received) = 2
               /\ received[1].URL.Path = pathInBkt(keyA.Key)
               /\ received[2].URL.Path = pathInBkt(keyDirB.Key)
               /\ \A i \in 1..2 : received[i].Type = ModeFile /\ received[i].Err = None

\* C6 happens: the listing of a, dir/ and dir/b has ended, dir/ was skipped
C6_Witness ==
    /\ routine = "listRecursiveInRoutine"
    /\ targetsBucket /\ plainBucket /\ chClosed
    /\ Len(received) = 2
    /\ \E i \in 1..Len(log) : log[i].entry.Key = keyDir.Key /\ log[i].item = None

\* the two items C7 names, delivered and the stream closed
twoItems ==
    /\ Len(received) = 2
    /\ received[1].URL.Path = pathInBkt(keyA.Key)
    /\ received[1].Type = ModeFile
    /\ received[1].Size = keyA.Size
    /\ received[2].URL.Path = pathInBkt(TrimRight(keyDir.Key, "/"))
    /\ received[2].Type = ModeDir
    /\ \A i \in 1..2 : received[i].Err = None

\* C7 as stated: a non-recursive listing of a bucket that holds a, dir/ and
\* dir/b yields exactly an Object item for a and a Directory item for dir/.
C7_FlatListingTwoItems ==
    (routine = "listInRoutine" /\ targetsBucket /\ plainBucket /\ chClosed) => twoItems

\* C7 amended: it does when the target's path ends in the separator (the
\* listing is of the bucket's keys, not of the bucket itself).
C7_FlatListingOfKeysTwoItems ==
    (/\ routine = "listInRoutine" /\ targetsBucket /\ plainBucket /\ chClosed
     /\ HasSuffix(client.targetURL.Path, sep(client))) => twoItems

C7_Witness ==
    /\ routine = "listInRoutine" /\ targetsBucket /\ plainBucket /\ chClosed
    /\ HasSuffix(client.targetURL.Path, sep(client))
    /\ twoItems

\* the routine calls ListBuckets: root scoped, or the target bucket itself
callsListBuckets == routine # "" /\ (isRoot(client) \/ isBucketOnly(routine, client))

\* C13: when ListBuckets fails, the listing, whichever of the four routines
\* runs it, delivers exactly one item, which carries the error, and then the
\* end of the stream: no other item is sent.
C13_ListBucketsFailureIsOneItem ==
    (callsListBuckets /\ backend.listBucketsErr # None) =>
        /\ offer \in {None, errContent(probeNewError(backend.listBucketsErr))}
        /\ received \in {<<>>, <<errContent(probeNewError(backend.listBucketsErr))>>}
        /\ chClosed => Len(received) = 1
        /\ log = <<>>

\* C14: on a handle with virtualStyle set, the path of the URL of every item
\* without an error, in any of the four listings and also in a root scoped
\* one, is the separator and the object key (joined as a path), without the
\* bucket name as a segment.
C14_VirtualStylePathIsKey ==
    client.virtualStyle =>
        \A i \in 1..Len(log) :
            (log[i].item # None /\ log[i].item.Err = None) =>
                log[i].item.URL.Path = Join(<<sep(client), log[i].entry.Key>>)

\* the items the routine has made for backend entries so far
produced == Cardinality({i \in 1..Len(log) : log[i].item # None})

\* C16: the routine of a List call hands its items over one at a time: an
\* item is outstanding only while the routine is at its send, and the items
\* made are the items the caller has taken and at most the one outstanding.
C16_Rendezvous ==
    /\ offer # None => ppc = "send"
    /\ produced <= Len(received) + 1
    /\ (routine # "" /\ ~isRoot(client) /\ ~isBucketOnly(routine, client)) =>
           produced = Len(received) + (IF offer # None THEN 1 ELSE 0)

\* C16 happens: the caller has taken two items and the third is outstanding
C16_Witness ==
    /\ routine # "" /\ ~isRoot(client) /\ ~isBucketOnly(routine, client)
    /\ Len(received) = 2
    /\ offer # None
    /\ produced = 3

\* the Directory items delivered for a bucket: its path under the target
\* and its creation time
directoryItemsOf(bucket) ==
    {i \in 1..Len(received) :
        /\ received[i].Err = None
        /\ received[i].Type = ModeDir
        /\ received[i].Time = bucket.CreationDate
        /\ received[i].URL.Path = Join(<<client.targetURL.Path, bucket.Name>>)}

\* a root scoped listing that ran over every bucket: ListBuckets and the
\* streams gave no error, and the stream is closed
rootListingDone ==
    /\ routine # ""
    /\ isRoot(client)
    /\ backend.listBucketsErr = None
    /\ backend.faultAt = 0
    /\ chClosed

\* C21: in a root scoped listing, whichever of the four routines runs it,
\* every bucket ListBuckets returned gives exactly one Directory item with
\* the creation time of the bucket (the incomplete routines deliver the
\* uploads of the bucket besides).
C21_RootListsEveryBucket ==
    rootListingDone =>
        \A j \in 1..Len(backend.buckets) :
            Cardinality(directoryItemsOf(backend.buckets[j])) = 1

\* the item is that of an upload: IncompleteUpload, the time it was initiated
isUploadItem(item, entry) ==
    /\ item.Type = ModeTemporary
    /\ item.Time = entry.Initiated
    /\ item.Size = entry.Size

\* C22 as stated: every item without an error that an incomplete listing
\* sends, recursive or not, root scoped or not, has the type IncompleteUpload
\* and the time the upload was initiated.
C22_IncompleteItemsAreUploads ==
    isIncompleteOf(routine) =>
        \A i \in 1..Len(log) :
            (log[i].item # None /\ log[i].item.Err = None) =>
                isUploadItem(log[i].item, log[i].entry)

\* C22 amended: it has in the recursive listing, and in the non-recursive one
\* for an entry whose key does not end in the separator; for a key that ends
\* in the separator (a common prefix) the non-recursive listing sends a
\* Directory item with the current time and no size.
C22_IncompleteItemsByKey ==
    isIncompleteOf(routine) =>
        \A i \in 1..Len(log) :
            (log[i].item # None /\ log[i].item.Err = None) =>
                IF ~isRecursiveOf(routine) /\ HasSuffix(log[i].entry.Key, sep(client))
                THEN /\ log[i].item.Type = ModeDir
                     /\ log[i].item.Time = "now"
                     /\ log[i].item.Size = 0
                ELSE isUploadItem(log[i].item, log[i].entry)

\* C22 happens: a non-recursive incomplete listing has delivered the upload
\* of a and the Directory item of dir/, and the stream is closed
C22_Witness ==
    /\ routine = "listIncompleteInRoutine"
    /\ chClosed
    /\ \E i, j \in 1..Len(received) :
           /\ received[i].Type = ModeTemporary
           /\ received[i].Time = multipartInfo(keyA).Initiated
           /\ received[j].Type = ModeDir
           /\ received[j].Time = "now"

(***************************************************************************)
(* Stat.                                                                   *)
(***************************************************************************)
\* c.api.BucketExists
BucketExists(bucket) ==
    [exists |-> \E i \in 1..Len(backend.buckets) : backend.buckets[i].Name = bucket,
     err |-> backend.existsErr]

result(content, err) == [content |-> content, err |-> err]

\* the loop of Stat over the listing of the trimmed key
RECURSIVE statLoop(_, _, _)
statLoop(c, object, entries) ==
    IF entries = <<>> THEN result(None, ObjectMissing)
    ELSE LET objectStat == Head(entries)
         IN  IF objectStat.Err # None
             THEN result(None, probeNewError(objectStat.Err))
             ELSE IF objectStat.Key = object
                  THEN result([zeroContent EXCEPT !.URL = c.targetURL,
                                                  !.Time = objectStat.LastModified,
                                                  !.Size = objectStat.Size,
                                                  !.Type = ModeFile], None)
                  ELSE IF HasSuffix(objectStat.Key, sep(c))
                       THEN result([zeroContent EXCEPT !.URL = c.targetURL,
                                                       !.Type = ModeDir], None)
                       ELSE statLoop(c, object, Tail(entries))

\* Stat without the test of what BucketExists answers
Stat_NoExistenceTest(c) ==
    LET bo == url2BucketAndObject(c)
        found == BucketExists(bo.bucketName)
    IN  IF bo.bucketName = <<>> THEN result(None, BucketNameEmpty)
        ELSE IF bo.objectName = <<>>
             THEN IF found.err # None THEN result(None, probeNewError(found.err))
                  ELSE result([zeroContent EXCEPT !.URL = c.targetURL,
                                                  !.Type = ModeDir], None)
             ELSE statLoop(c, TrimRight(bo.objectName, c.targetURL.Separator),
                           listObjectWrapper(bo.bucketName,
                                             TrimRight(bo.objectName,
                                                       c.targetURL.Separator),
                                             FALSE))

\* Stat, between Lock and Unlock
Stat(c) ==
    LET bo == url2BucketAndObject(c)
        found == BucketExists(bo.bucketName)
    IN  IF bo.bucketName = <<>> THEN result(None, BucketNameEmpty)
        ELSE IF bo.objectName = <<>>
             THEN IF found.err # None THEN result(None, probeNewError(found.err))
                  ELSE IF ~found.exists
                       THEN result(None, BucketDoesNotExist(bo.bucketName))
                       ELSE result([zeroContent EXCEPT !.URL = c.targetURL,
                                                       !.Type = ModeDir], None)
             ELSE statLoop(c, TrimRight(bo.objectName, c.targetURL.Separator),
                           listObjectWrapper(bo.bucketName,
                                             TrimRight(bo.objectName,
                                                       c.targetURL.Separator),
                                             FALSE))

\* Stat calls the backend unless the bucket name is empty
statCallsBackend(c) == url2BucketAndObject(c).bucketName # <<>>

\* the backend calls Stat makes, in order: none for an empty bucket name,
\* BucketExists for an empty object key, else the listing of the key
statCalls(c) ==
    LET bo == url2BucketAndObject(c)
    IN  IF bo.bucketName = <<>> THEN <<>>
        ELSE IF bo.objectName = <<>> THEN <<"BucketExists">>
        ELSE IF c.targetURL.Host = amazonHostName THEN <<"ListObjectsV2">>
        ELSE <<"ListObjects">>

\* Stat: takes the lock and goes to the backend
StatEnter ==
    /\ spc = "idle"
    /\ mutex = "free"
    /\ mutex' = "Stat"
    /\ spc' = "inStat"
    /\ UNCHANGED <<client, factoryVars, resolverVars, backend, lpc, routine, ppc, after,
                   bucketsLeft, curBucket, entriesLeft, offer, chClosed, received,
                   log, statOut, opOut, watchVars>>

\* Stat: the backend has answered, Stat returns and the deferred Unlock runs
StatReturn ==
    /\ spc = "inStat"
    /\ statOut' = Stat(client)
    /\ mutex' = "free"
    /\ spc' = "returned"
    /\ UNCHANGED <<client, factoryVars, resolverVars, backend, lpc, routine, ppc, after,
                   bucketsLeft, curBucket, entriesLeft, offer, chClosed, received,
                   log, opOut, watchVars>>

(***************************************************************************)
(* One handle used by a caller of List and a caller of Stat.               *)
(***************************************************************************)
HandleTargets ==
    {s3New(customHostName, <<"/">>),
     s3New(customHostName, <<"/">> \o bkt \o <<"/">>),
     s3New(customHostName, <<"/">> \o bkt \o <<"/">> \o keyA.Key),
     s3New(customHostName, <<"/">> \o bkt \o <<"/", "d", "i", "r">>)}

HandleBackends ==
    {[noBackend EXCEPT !.buckets = <<bucketInfo(bkt, "bkt")>>,
                       !.keys = <<ks>>, !.uploads = <<ks>>, !.faultAt = at,
                       !.fault = ErrorResponse("InternalError")] :
        ks \in {<<keyA, keyDir, keyDirB>>, <<keyDirB>>}, at \in 0..1}

InitHandle ==
    /\ FactoryIdle
    /\ client \in HandleTargets
    /\ ResolverIdle
    /\ backend \in HandleBackends
    /\ mutex = "free"
    /\ lpc = "idle"
    /\ routine = ""
    /\ ppc = "idle"
    /\ after = ""
    /\ bucketsLeft = <<>>
    /\ curBucket = <<>>
    /\ entriesLeft = <<>>
    /\ offer = None
    /\ chClosed = FALSE
    /\ received = <<>>
    /\ log = <<>>
    /\ StatIdle
    /\ OpsIdle
    /\ WatchIdle

NextHandle == NextList \/ StatEnter \/ StatReturn

SpecHandle == InitHandle /\ [][NextHandle]_vars

\* List returns once called, Stat is called and takes the lock once it is
\* free, and returns (weak fairness of StatReturn, which is enabled while
\* Stat is inside); the routine of List and the reader of its stream are
\* free to run or not
FairSpecHandle ==
    /\ SpecHandle
    /\ WF_vars(ListReturn)
    /\ WF_vars(StatEnter)
    /\ ([]<>(spc # "inStat") \/ []<><<StatReturn>>_vars)

\* C27: List holds the lock of the handle only until it returns, which is
\* before the caller can take an item: whatever the routine and the reader
\* of the stream do, also when the stream is never read and the routine
\* stays at its first send, the lock is free for a later call once List has
\* returned and Stat is not inside, and Stat on the handle gets the lock
\* and returns.
C27_UnreadListLeavesLockFree ==
    /\ [](received # <<>> => (lpc = "returned" /\ mutex # "List"))
    /\ []((lpc = "returned" /\ spc # "inStat") => mutex = "free")
    /\ <>(spc = "returned" /\ statOut # None)
    /\ [](received = <<>>) => <>(spc = "returned" /\ statOut # None)

\* C27 happens: the stream was never read, the routine is at its first
\* send, and Stat, called after List, has returned
C27_Witness ==
    /\ lpc = "returned"
    /\ ppc = "send"
    /\ offer # None
    /\ received = <<>>
    /\ spc = "returned"
    /\ statOut # None
    /\ mutex = "free"

\* the routine List started is enumerating at the backend
enumerating == ppc \in {"buckets", "list", "objects", "send"}

\* C5: List and Stat on one handle are serialized by its lock: a backend
\* call of Stat never overlaps the backend enumeration of a List routine.
C5_StatExcludesEnumeration ==
    ~(spc = "inStat" /\ statCallsBackend(client) /\ enumerating)

(***************************************************************************)
(* Stat on its own, over the targets and the stores of a bucket.           *)
(***************************************************************************)
StatTargets ==
    {s3New(customHostName, <<"/">>),
     s3New(customHostName, <<"/">> \o bkt),
     s3New(customHostName, <<"/">> \o tmp),
     s3New(customHostName, <<"/">> \o bkt \o <<"/">> \o keyA.Key),
     s3New(customHostName, <<"/">> \o bkt \o <<"/", "d", "i", "r">>),
     s3New(customHostName, <<"/">> \o bkt \o <<"/", "d", "i", "r", "/">>),
     s3New(customHostName, <<"/">> \o bkt \o <<"/", "d", "i">>),
     s3New(customHostName, <<"/">> \o bkt \o <<"/", "x">>)}

StatBackends ==
    {[noBackend EXCEPT !.buckets = <<bucketInfo(bkt, "bkt")>>,
                       !.keys = <<ks>>, !.uploads = <<ks>>, !.faultAt = at,
                       !.fault = ErrorResponse("InternalError"),
                       !.existsErr = e] :
        ks \in Stores, at \in 0..1, e \in {None, ErrorResponse("InternalError")}}

InitStat ==
    /\ FactoryIdle
    /\ client \in StatTargets
    /\ ResolverIdle
    /\ backend \in StatBackends
    /\ mutex = "free"
    /\ lpc = "idle"
    /\ routine = ""
    /\ ppc = "idle"
    /\ after = ""
    /\ bucketsLeft = <<>>
    /\ curBucket = <<>>
    /\ entriesLeft = <<>>
    /\ offer = None
    /\ chClosed = FALSE
    /\ received = <<>>
    /\ log = <<>>
    /\ StatIdle
    /\ OpsIdle
    /\ WatchIdle

NextStat == StatEnter \/ StatReturn

SpecStat == InitStat /\ [][NextStat]_vars

\* the key Stat looks for, and the entries of its listing
statKey ==
    TrimRight(url2BucketAndObject(client).objectName, client.targetURL.Separator)

statEntries == listObjectWrapper(url2BucketAndObject(client).bucketName, statKey, FALSE)

\* Stat has returned from a listing of a non-empty key that had no error
statOfKey ==
    /\ spc = "returned"
    /\ url2BucketAndObject(client).bucketName # <<>>
    /\ statKey # <<>>
    /\ backend.faultAt = 0

\* C11: Stat of a non-empty key k returns an Object item if a listed entry's
\* key is k; else a Directory item if a listed entry's key is k followed by
\* the separator; else it fails with ObjectMissing.
C11_StatByKey ==
    statOfKey =>
        IF \E i \in 1..Len(statEntries) : statEntries[i].Key = statKey
        THEN statOut.err = None /\ statOut.content.Type = ModeFile
        ELSE IF \E i \in 1..Len(statEntries) :
                    statEntries[i].Key = statKey \o sep(client)
             THEN statOut.err = None /\ statOut.content.Type = ModeDir
             ELSE statOut.content = None /\ statOut.err = ObjectMissing

\* C15: Stat with an empty bucket name fails with BucketNameEmpty and calls
\* no backend; with a bucket and no object key it calls BucketExists, and
\* returns a Directory item of the target URL if the bucket exists,
\* BucketDoesNotExist if it does not.
C15_StatOfBucket ==
    (spc = "returned" /\ url2BucketAndObject(client).objectName = <<>>) =>
        IF url2BucketAndObject(client).bucketName = <<>>
        THEN /\ statOut = result(None, BucketNameEmpty)
             /\ statCalls(client) = <<>>
        ELSE /\ statCalls(client) = <<"BucketExists">>
             /\ backend.existsErr = None =>
                    statOut = IF \E i \in 1..Len(backend.buckets) :
                                     backend.buckets[i].Name
                                         = url2BucketAndObject(client).bucketName
                              THEN result([zeroContent EXCEPT !.URL = client.targetURL,
                                                              !.Type = ModeDir], None)
                              ELSE result(None,
                                          BucketDoesNotExist(
                                              url2BucketAndObject(client).bucketName))

\* C15 happens: Stat of a bucket the backend does not have
C15_Witness ==
    /\ spc = "returned"
    /\ url2BucketAndObject(client) = [bucketName |-> tmp, objectName |-> <<>>]
    /\ backend.existsErr = None
    /\ statOut = result(None, BucketDoesNotExist(tmp))

(***************************************************************************)
(* The object operations and their translation of backend errors.          *)
(***************************************************************************)
\* Get: the reader and the error it returns, for the error e of GetObject
Get(c, e) ==
    LET bo == url2BucketAndObject(c)
        code == ToErrorResponse(e).Code
    IN  IF e # None
        THEN IF code = "AccessDenied"
             THEN [reader |-> None, err |-> PathInsufficientPermission(c.targetURL)]
             ELSE IF code = "NoSuchBucket"
             THEN [reader |-> None, err |-> BucketDoesNotExist(bo.bucketName)]
             ELSE IF code = "InvalidBucketName"
             THEN [reader |-> None, err |-> BucketInvalid(bo.bucketName)]
             ELSE IF code = "NoSuchKey" \/ code = "InvalidArgument"
             THEN [reader |-> None, err |-> ObjectMissing]
             ELSE [reader |-> None, err |-> probeNewError(e)]
        ELSE [reader |-> [object |-> bo.objectName], err |-> None]

\* Copy: the error it returns, for the error e of CopyObject; progress is
\* None for nil, or a reader and the bytes it holds: io.CopyN of size bytes
\* returns io.EOF when the reader holds fewer
Copy(c, size, progress, e) ==
    LET bo == url2BucketAndObject(c)
        code == ToErrorResponse(e).Code
    IN  IF bo.bucketName = <<>> THEN BucketNameEmpty
        ELSE IF e # None
        THEN IF code = "AccessDenied" THEN PathInsufficientPermission(c.targetURL)
             ELSE IF code = "NoSuchBucket" THEN BucketDoesNotExist(bo.bucketName)
             ELSE IF code = "InvalidBucketName" THEN BucketInvalid(bo.bucketName)
             ELSE IF code = "NoSuchKey" \/ code = "InvalidArgument" THEN ObjectMissing
             ELSE probeNewError(e)
        ELSE IF progress # None /\ progress.holds < size THEN probeNewError(ioEOF)
             ELSE None

\* Put with the case of MethodNotAllowed lost
Put_NoAlreadyExists(c, size, n, e) ==
    LET bo == url2BucketAndObject(c)
        code == ToErrorResponse(e).Code
    IN  IF bo.bucketName = <<>> THEN [n |-> 0, err |-> BucketNameEmpty]
        ELSE IF e # None
        THEN IF code = "UnexpectedEOF" \/ e = ioEOF
             THEN [n |-> n, err |-> UnexpectedEOF(size, n)]
             ELSE IF code = "AccessDenied"
             THEN [n |-> n, err |-> PathInsufficientPermission(c.targetURL)]
             ELSE IF code = "XMinioObjectExistsAsDirectory"
             THEN [n |-> n, err |-> ObjectAlreadyExistsAsDirectory(bo.objectName)]
             ELSE IF code = "NoSuchBucket"
             THEN [n |-> n, err |-> BucketDoesNotExist(bo.bucketName)]
             ELSE IF code = "InvalidBucketName"
             THEN [n |-> n, err |-> BucketInvalid(bo.bucketName)]
             ELSE IF code = "NoSuchKey" \/ code = "InvalidArgument"
             THEN [n |-> n, err |-> ObjectMissing]
             ELSE [n |-> n, err |-> probeNewError(e)]
        ELSE [n |-> n, err |-> None]

\* Put: the count and the error it returns, for the count n and the error e
\* of PutObjectWithProgress
Put(c, size, n, e) ==
    LET bo == url2BucketAndObject(c)
        code == ToErrorResponse(e).Code
    IN  IF bo.bucketName = <<>> THEN [n |-> 0, err |-> BucketNameEmpty]
        ELSE IF e # None
        THEN IF code = "UnexpectedEOF" \/ e = ioEOF
             THEN [n |-> n, err |-> UnexpectedEOF(size, n)]
             ELSE IF code = "AccessDenied"
             THEN [n |-> n, err |-> PathInsufficientPermission(c.targetURL)]
             ELSE IF code = "MethodNotAllowed"
             THEN [n |-> n, err |-> ObjectAlreadyExists(bo.objectName)]
             ELSE IF code = "XMinioObjectExistsAsDirectory"
             THEN [n |-> n, err |-> ObjectAlreadyExistsAsDirectory(bo.objectName)]
             ELSE IF code = "NoSuchBucket"
             THEN [n |-> n, err |-> BucketDoesNotExist(bo.bucketName)]
             ELSE IF code = "InvalidBucketName"
             THEN [n |-> n, err |-> BucketInvalid(bo.bucketName)]
             ELSE IF code = "NoSuchKey" \/ code = "InvalidArgument"
             THEN [n |-> n, err |-> ObjectMissing]
             ELSE [n |-> n, err |-> probeNewError(e)]
        ELSE [n |-> n, err |-> None]

\* Remove: the error it returns, for the error e of RemoveIncompleteUpload,
\* RemoveBucket or RemoveObject, whichever it calls
Remove(c, incomplete, e) == probeNewError(e)

\* the backend call Remove makes
removeCall(c, incomplete) ==
    LET bo == url2BucketAndObject(c)
    IN  IF incomplete /\ bo.objectName # <<>> THEN "RemoveIncompleteUpload"
        ELSE IF bo.objectName = <<>> THEN "RemoveBucket" ELSE "RemoveObject"

\* whether the operation reaches the backend
callsBackend(op, c) ==
    op \in {"Get", "Remove"} \/ url2BucketAndObject(c).bucketName # <<>>

called(op, args, e, err) == [op |-> op, args |-> args, e |-> e, err |-> err]

\* the service after a call that succeeded.  The buckets named b:
bucketsNamed(b) ==
    {i \in 1..Len(backend.buckets) : backend.buckets[i].Name = b}

\* a list of keys with the key k put in it, in key order, in the place of
\* the one of its name if there is one
withKey(keys, k) ==
    SelectSeq(keys, LAMBDA x : stringLess(x.Key, k.Key)) \o <<k>>
        \o SelectSeq(keys, LAMBDA x : stringLess(k.Key, x.Key))

withoutKey(keys, key) == SelectSeq(keys, LAMBDA x : x.Key # key)

\* the object the service stores for an upload or a copy of size bytes
storedObject(object, size) ==
    [Key |-> object, Size |-> size, StorageClass |-> "STANDARD", Stamp |-> "new"]

\* PutObjectWithProgress and CopyObject: the bucket holds the object
serviceWithObject(bucket, object, size) ==
    IF object = <<>> THEN backend
    ELSE [backend EXCEPT !.keys =
              [i \in 1..Len(backend.keys) |->
                  IF i \in bucketsNamed(bucket)
                  THEN withKey(backend.keys[i], storedObject(object, size))
                  ELSE backend.keys[i]]]

\* RemoveObject: the bucket no longer holds the key
serviceWithoutObject(bucket, object) ==
    [backend EXCEPT !.keys =
        [i \in 1..Len(backend.keys) |->
            IF i \in bucketsNamed(bucket) THEN withoutKey(backend.keys[i], object)
            ELSE backend.keys[i]]]

\* RemoveIncompleteUpload: the bucket no longer holds the upload of the key
serviceWithoutUpload(bucket, object) ==
    [backend EXCEPT !.uploads =
        [i \in 1..Len(backend.uploads) |->
            IF i \in bucketsNamed(bucket) THEN withoutKey(backend.uploads[i], object)
            ELSE backend.uploads[i]]]

\* a list without the elements at the places given
without(seq, places) ==
    LET kept == {i \in 1..Len(seq) : i \notin places}
        RECURSIVE from(_)
        from(i) == IF i > Len(seq) THEN <<>>
                   ELSE (IF i \in kept THEN <<seq[i]>> ELSE <<>>) \o from(i + 1)
    IN  from(1)

\* RemoveBucket: the bucket is gone, with what it held
serviceWithoutBucket(bucket) ==
    [backend EXCEPT !.buckets = without(backend.buckets, bucketsNamed(bucket)),
                    !.keys = without(backend.keys, bucketsNamed(bucket)),
                    !.uploads = without(backend.uploads, bucketsNamed(bucket))]

\* MakeBucket: the service has the bucket, empty
serviceWithBucket(bucket) ==
    IF bucketsNamed(bucket) # {} THEN backend
    ELSE LET n == Len(backend.buckets)
         IN  [backend EXCEPT
                  !.buckets = Append(backend.buckets, [Name |-> bucket,
                                                       CreationDate |-> "created:new"]),
                  !.keys = Append(Take(backend.keys, n), <<>>),
                  !.uploads = Append(Take(backend.uploads, n), <<>>)]

\* the service after the call Remove made has succeeded
serviceAfterRemove(c, incomplete) ==
    LET bo == url2BucketAndObject(c)
    IN  CASE removeCall(c, incomplete) = "RemoveIncompleteUpload" ->
                 serviceWithoutUpload(bo.bucketName, bo.objectName)
          [] removeCall(c, incomplete) = "RemoveBucket" ->
                 serviceWithoutBucket(bo.bucketName)
          [] removeCall(c, incomplete) = "RemoveObject" ->
                 serviceWithoutObject(bo.bucketName, bo.objectName)

GetCall ==
    /\ opOut = None
    /\ opOut' = called("Get", [size |-> 0], backend.opErr, Get(client, backend.opErr).err)
    /\ UNCHANGED <<client, factoryVars, resolverVars, listVars, statVars, watchVars>>

\* Copy as one call: when CopyObject succeeds the service holds the object
\* under the target key, whatever the progress reader then gives
CopyCall ==
    /\ opOut = None
    /\ \E size \in 0..MaxSize,
          progress \in {None} \cup {[holds |-> k] : k \in 0..MaxSize} :
           LET bo == url2BucketAndObject(client)
           IN  /\ opOut' = called("Copy", [size |-> size, progress |-> progress],
                                  backend.opErr,
                                  Copy(client, size, progress, backend.opErr))
               /\ backend' = IF bo.bucketName # <<>> /\ backend.opErr = None
                             THEN serviceWithObject(bo.bucketName, bo.objectName, size)
                             ELSE backend
    /\ UNCHANGED <<client, factoryVars, resolverVars, listingVars, statVars, watchVars>>

\* Put as one call: when PutObjectWithProgress succeeds the service holds
\* the object under the target key
PutCall ==
    /\ opOut = None
    /\ \E size \in 0..MaxSize :
           opOut' = called("Put", [size |-> size, n |-> backend.written],
                           backend.opErr,
                           Put(client, size, backend.written, backend.opErr).err)
    /\ LET bo == url2BucketAndObject(client)
       IN  backend' = IF bo.bucketName # <<>> /\ backend.opErr = None
                      THEN serviceWithObject(bo.bucketName, bo.objectName,
                                             backend.written)
                      ELSE backend
    /\ UNCHANGED <<client, factoryVars, resolverVars, listingVars, statVars, watchVars>>

\* Remove as one call: when the call it makes succeeds the upload, the
\* bucket or the object is gone from the service
RemoveCall ==
    /\ opOut = None
    /\ \E incomplete \in BOOLEAN :
           /\ opOut' = called("Remove", [incomplete |-> incomplete], backend.opErr,
                              Remove(client, incomplete, backend.opErr))
           /\ backend' = IF backend.opErr = None
                         THEN serviceAfterRemove(client, incomplete)
                         ELSE backend
    /\ UNCHANGED <<client, factoryVars, resolverVars, listingVars, statVars, watchVars>>

\* the codes the operations translate, and two they do not
TranslatedCodes ==
    {"AccessDenied", "NoSuchBucket", "InvalidBucketName", "NoSuchKey",
     "InvalidArgument", "UnexpectedEOF", "MethodNotAllowed",
     "XMinioObjectExistsAsDirectory"}

BackendErrors ==
    {ioEOF} \cup {ErrorResponse(code) : code \in TranslatedCodes \cup {"InternalError", "SlowDown"}}

OpsTargets ==
    {s3New(customHostName, <<"/">>),
     s3New(customHostName, <<"/">> \o bkt),
     s3New(customHostName, <<"/">> \o bkt \o <<"/">> \o keyA.Key),
     s3New(customHostName, <<"/">> \o bkt \o <<"/", "x">>)}

\* the backend of the operations: a call fails with e (has written n bytes)
\* or succeeds; for Stat the failure is that of BucketExists and of the
\* listing's first entry
OpsBackends ==
    {[noBackend EXCEPT !.buckets = <<bucketInfo(bkt, "bkt")>>, !.keys = <<<<keyA>>>>,
                       !.uploads = <<<<keyA>>>>,
                       !.opErr = e, !.existsErr = e, !.fault = e,
                       !.faultAt = IF e = None THEN 0 ELSE 1,
                       !.written = n] :
        e \in BackendErrors \cup {None}, n \in 0..MaxSize}

InitOps ==
    /\ FactoryIdle
    /\ client \in OpsTargets
    /\ ResolverIdle
    /\ backend \in OpsBackends
    /\ mutex = "free"
    /\ lpc = "idle"
    /\ routine = ""
    /\ ppc = "idle"
    /\ after = ""
    /\ bucketsLeft = <<>>
    /\ curBucket = <<>>
    /\ entriesLeft = <<>>
    /\ offer = None
    /\ chClosed = FALSE
    /\ received = <<>>
    /\ log = <<>>
    /\ StatIdle
    /\ OpsIdle
    /\ WatchIdle

NextOps == GetCall \/ PutCall \/ CopyCall \/ RemoveCall \/ StatEnter \/ StatReturn

SpecOps == InitOps /\ [][NextOps]_vars

\* the operation was called, reached the backend and the backend failed
backendFailed ==
    opOut # None /\ opOut.e # None /\ callsBackend(opOut.op, client)

\* Stat has returned after its backend call (BucketExists, or the listing
\* at its first entry) failed
statFailed ==
    spc = "returned" /\ backend.opErr # None /\ statCallsBackend(client)

\* the domain error of the five codes every operation is to translate
domainError(code) ==
    CASE code = "AccessDenied" -> PathInsufficientPermission(client.targetURL)
      [] code = "NoSuchBucket" -> BucketDoesNotExist(url2BucketAndObject(client).bucketName)
      [] code = "InvalidBucketName" -> BucketInvalid(url2BucketAndObject(client).bucketName)
      [] code \in {"NoSuchKey", "InvalidArgument"} -> ObjectMissing

CommonCodes ==
    {"AccessDenied", "NoSuchBucket", "InvalidBucketName", "NoSuchKey", "InvalidArgument"}

\* C9: at Get, Put, Copy, Remove and Stat alike, a backend failure with one
\* of the codes AccessDenied, NoSuchBucket, InvalidBucketName, NoSuchKey or
\* InvalidArgument is returned as its domain error, never as the raw error.
C9_MappingAtEveryOperation ==
    /\ (backendFailed /\ opOut.e # ioEOF /\ opOut.e.Code \in CommonCodes)
           => opOut.err = domainError(opOut.e.Code)
    /\ (statFailed /\ backend.opErr # ioEOF /\ backend.opErr.Code \in CommonCodes)
           => statOut.err = domainError(backend.opErr.Code)

\* the error the claim gives for a failure of the upload
putError ==
    LET object == url2BucketAndObject(client).objectName
        e == opOut.e
    IN  IF e = ioEOF THEN UnexpectedEOF(opOut.args.size, opOut.args.n)
        ELSE CASE e.Code = "UnexpectedEOF" -> UnexpectedEOF(opOut.args.size, opOut.args.n)
               [] e.Code = "MethodNotAllowed" -> ObjectAlreadyExists(object)
               [] e.Code = "XMinioObjectExistsAsDirectory" ->
                      ObjectAlreadyExistsAsDirectory(object)
               [] e.Code \in CommonCodes -> domainError(e.Code)
               [] OTHER -> probeNewError(e)

\* the error the claim gives for a failure of Get and of Copy
getError ==
    IF opOut.e # ioEOF /\ opOut.e.Code \in CommonCodes THEN domainError(opOut.e.Code)
    ELSE probeNewError(opOut.e)

\* C10: error translation is total and single-valued: every backend failure
\* of Put gives the one error of the table (short write for UnexpectedEOF
\* and io.EOF, ..., the wrapped error for any other code), never nil; and so
\* for Get and Copy over their codes.
C10_TranslationTotal ==
    backendFailed =>
        /\ opOut.op \in {"Get", "Put", "Copy"} => opOut.err # None
        /\ opOut.op = "Put" => opOut.err = putError
        /\ opOut.op \in {"Get", "Copy"} => opOut.err = getError

\* C10 happens: an upload refused with MethodNotAllowed
C10_Witness ==
    /\ backendFailed
    /\ opOut.op = "Put"
    /\ opOut.e = ErrorResponse("MethodNotAllowed")
    /\ opOut.err = ObjectAlreadyExists(keyA.Key)

(***************************************************************************)
(* Watch.                                                                  *)
(***************************************************************************)
\* minio.ObjectCreatedAll and minio.ObjectRemovedAll; an event name is the
\* sequence of its prefix up to the last colon and its last part
ObjectCreatedAll == <<"s3:ObjectCreated:", "*">>

ObjectRemovedAll == <<"s3:ObjectRemoved:", "*">>

\* the loop of Watch over params.events: the names to listen for, or the
\* InvalidArgument error of the first name that is neither put nor delete
RECURSIVE watchEvents_SkipsUnknown(_, _)
watchEvents_SkipsUnknown(names, acc) ==
    IF names = <<>> THEN [events |-> acc, err |-> None]
    ELSE IF Head(names) = "put"
         THEN watchEvents_SkipsUnknown(Tail(names), Append(acc, ObjectCreatedAll))
         ELSE IF Head(names) = "delete"
              THEN watchEvents_SkipsUnknown(Tail(names), Append(acc, ObjectRemovedAll))
              ELSE watchEvents_SkipsUnknown(Tail(names), acc)

RECURSIVE watchEvents(_, _)
watchEvents(names, acc) ==
    IF names = <<>> THEN [events |-> acc, err |-> None]
    ELSE IF Head(names) = "put"
         THEN watchEvents(Tail(names), Append(acc, ObjectCreatedAll))
         ELSE IF Head(names) = "delete"
              THEN watchEvents(Tail(names), Append(acc, ObjectRemovedAll))
              ELSE [events |-> acc, err |-> errInvalidArgument]

subscription(bucket, prefix, suffix, names) ==
    [bucket |-> bucket, prefix |-> prefix, suffix |-> suffix, events |-> names]

\* Watch without the check of an object key against a prefix
Watch_NoConflictCheck(c, params) ==
    LET bo == url2BucketAndObject(c)
        names == watchEvents(params.events, <<>>)
    IN  IF isValidBucketName(bo.bucketName) # None
        THEN [err |-> isValidBucketName(bo.bucketName), listen |-> None]
        ELSE IF names.err # None THEN [err |-> names.err, listen |-> None]
        ELSE [err |-> None,
              listen |-> subscription(bo.bucketName,
                                      IF bo.objectName # <<>> THEN bo.objectName
                                      ELSE params.prefix,
                                      params.suffix, names.events)]

\* Watch up to its return: the error it returns, or the subscription it
\* opens with ListenBucketNotification
Watch(c, params) ==
    LET bo == url2BucketAndObject(c)
        names == watchEvents(params.events, <<>>)
    IN  IF isValidBucketName(bo.bucketName) # None
        THEN [err |-> isValidBucketName(bo.bucketName), listen |-> None]
        ELSE IF names.err # None THEN [err |-> names.err, listen |-> None]
        ELSE IF bo.objectName # <<>> /\ params.prefix # <<>>
        THEN [err |-> errInvalidArgument, listen |-> None]
        ELSE [err |-> None,
              listen |-> subscription(bo.bucketName,
                                      IF bo.objectName # <<>> THEN bo.objectName
                                      ELSE params.prefix,
                                      params.suffix, names.events)]

\* the upper-case hex digits by value
hexUpper ==
    <<"0", "1", "2", "3", "4", "5", "6", "7", "8", "9", "A", "B", "C", "D", "E", "F">>

\* ishex
HexDigits == {hexLower[i] : i \in 1..16} \cup {hexUpper[i] : i \in 1..16}

\* unhex of one digit: its value
unhexDigit(d) ==
    (CHOOSE i \in 1..16 : hexLower[i] = d \/ hexUpper[i] = d) - 1

\* the character of a pair of hex digits: unhex(hi)<<4 | unhex(lo)
unhex(hi, lo) == charOf(16 * unhexDigit(hi) + unhexDigit(lo))

\* the places of a string where a % is not followed by two hex digits
badEscapes(k) ==
    {i \in 1..Len(k) :
        /\ k[i] = "%"
        /\ ~(i + 2 <= Len(k) /\ k[i + 1] \in HexDigits /\ k[i + 2] \in HexDigits)}

\* the second pass of unescape, on a string with no bad escape: %XX is the
\* character of the hex pair, + is a blank
RECURSIVE unescaped(_)
unescaped(k) ==
    IF k = <<>> THEN <<>>
    ELSE IF Head(k) = "%" THEN <<unhex(k[2], k[3])>> \o unescaped(Drop(k, 3))
         ELSE <<IF Head(k) = "+" THEN " " ELSE Head(k)>> \o unescaped(Tail(k))

\* url.QueryUnescape: the string is checked first; at the first % that no
\* two hex digits follow it returns the empty string and an EscapeError
\* with the three characters (or fewer) from that %
QueryUnescape(k) ==
    IF badEscapes(k) # {}
    THEN LET i == CHOOSE i \in badEscapes(k) : \A j \in badEscapes(k) : i <= j
         IN  [s |-> <<>>,
              err |-> [type |-> "EscapeError", s |-> SubSeq(k, i, IF i + 2 <= Len(k) THEN i + 2 ELSE Len(k))]]
    ELSE [s |-> unescaped(k), err |-> None]

EventCreate == "EventCreate"

EventRemove == "EventRemove"

\* forwardRecord with the s3:ObjectRemoved: case lost
forwardRecord_NoRemoved(c, record) ==
    LET key == QueryUnescape(record.S3.Object.Key)
        u == withPath(c.targetURL,
                      Join(<<sep(c), record.S3.Bucket.Name, key.s>>))
    IN  IF key.err # None THEN [to |-> "errorChan", value |-> probeNewError(key.err)]
        ELSE IF HasPrefix(record.EventName, <<"s3:ObjectCreated:">>)
        THEN [to |-> "eventChan",
              value |-> [Time |-> record.EventTime, Size |-> record.S3.Object.Size,
                         Path |-> u, Type |-> EventCreate]]
        ELSE [to |-> "nowhere", value |-> None]

\* what the forwarder does with one record: the event it sends on
\* eventChan, the error it sends on errorChan, or nothing
forwardRecord(c, record) ==
    LET key == QueryUnescape(record.S3.Object.Key)
        u == withPath(c.targetURL,
                      Join(<<sep(c), record.S3.Bucket.Name, key.s>>))
    IN  IF key.err # None THEN [to |-> "errorChan", value |-> probeNewError(key.err)]
        ELSE IF HasPrefix(record.EventName, <<"s3:ObjectCreated:">>)
        THEN [to |-> "eventChan",
              value |-> [Time |-> record.EventTime, Size |-> record.S3.Object.Size,
                         Path |-> u, Type |-> EventCreate]]
        ELSE IF HasPrefix(record.EventName, <<"s3:ObjectRemoved:">>)
        THEN [to |-> "eventChan",
              value |-> [Time |-> record.EventTime, Size |-> 0,
                         Path |-> u, Type |-> EventRemove]]
        ELSE [to |-> "nowhere", value |-> None]

\* the records and notifications of the backend
recordOf(name, key) ==
    [EventName |-> name, EventTime |-> "time:" \o name[1],
     S3 |-> [Bucket |-> [Name |-> bkt], Object |-> [Key |-> key, Size |-> 1]]]

createdRecord == recordOf(<<"s3:ObjectCreated:", "Put">>, <<"k">>)

removedRecord == recordOf(<<"s3:ObjectRemoved:", "Delete">>, <<"d", "%", "2", "F", "k">>)

otherRecord == recordOf(<<"s3:ReducedRedundancyLostObject">>, <<"k">>)

badKeyRecord == recordOf(<<"s3:ObjectCreated:", "Post">>, <<"%", "z">>)

Records == {createdRecord, removedRecord, otherRecord, badKeyRecord}

Notifications ==
    {[Err |-> ErrorResponse("InternalError"), Records |-> <<>>],
     [Err |-> None, Records |-> <<createdRecord>>],
     [Err |-> None, Records |-> <<otherRecord, removedRecord>>],
     [Err |-> None, Records |-> <<badKeyRecord, createdRecord>>]}

WatchTargets ==
    {s3New(customHostName, <<"/">> \o bkt),
     s3New(customHostName, <<"/">> \o bkt \o <<"/", "o">>),
     s3New(customHostName, <<"/", "B", "K", "/", "o">>)}

\* what the forwarder does with each record of the backend, for each handle
forwarded ==
    [c \in WatchTargets, record \in Records |-> forwardRecord(c, record)]

\* the program runs: no task has panicked
alive == fpc # "panic"

\* Watch, as one call: on success the two tasks are started and the
\* subscription is open
WatchCall ==
    /\ wOut = None
    /\ \E names \in {<<"put">>, <<"delete">>, <<"put", "delete">>, <<"get">>,
                     <<"put", "get">>},
          prefix \in {<<>>, <<"p">>} :
           LET params == [events |-> names, prefix |-> prefix, suffix |-> <<>>]
               w == Watch(client, params)
           IN  /\ wOut' = [params |-> params, err |-> w.err]
               /\ listenArgs' = w.listen
               /\ supc' = IF w.err = None THEN "wait" ELSE "idle"
               /\ fpc' = IF w.err = None THEN "range" ELSE "idle"
    /\ UNCHANGED <<client, factoryVars, resolverVars, listVars, statVars, opOut, doneChanClosed,
                   doneChClosed, eventChanClosed, errorChanClosed, notifs,
                   eventsChClosed, recordsLeft, sending, events, errors>>

\* the caller closes the done channel of the watchObject
CloseDone ==
    /\ alive
    /\ wOut # None /\ wOut.err = None
    /\ ~doneChanClosed
    /\ doneChanClosed' = TRUE
    /\ UNCHANGED <<client, factoryVars, resolverVars, listVars, statVars, opOut, wOut,
                   listenArgs, doneChClosed, eventChanClosed, errorChanClosed, supc,
                   fpc, notifs, eventsChClosed, recordsLeft, sending, events, errors>>

\* the supervisor: <-doneChan returns, close(doneCh)
supervisorCloseDoneCh ==
    /\ alive
    /\ supc = "wait"
    /\ doneChanClosed
    /\ doneChClosed' = TRUE
    /\ supc' = "closeEvent"
    /\ UNCHANGED <<client, factoryVars, resolverVars, listVars, statVars, opOut, wOut,
                   listenArgs, doneChanClosed, eventChanClosed, errorChanClosed,
                   fpc, notifs, eventsChClosed, recordsLeft, sending, events, errors>>

\* the supervisor: close(eventChan)
supervisorCloseEventChan ==
    /\ alive
    /\ supc = "closeEvent"
    /\ eventChanClosed' = TRUE
    /\ supc' = "closeError"
    /\ UNCHANGED <<client, factoryVars, resolverVars, listVars, statVars, opOut, wOut,
                   listenArgs, doneChanClosed, doneChClosed, errorChanClosed,
                   fpc, notifs, eventsChClosed, recordsLeft, sending, events, errors>>

\* the supervisor: close(errorChan)
supervisorCloseErrorChan ==
    /\ alive
    /\ supc = "closeError"
    /\ errorChanClosed' = TRUE
    /\ supc' = "done"
    /\ UNCHANGED <<client, factoryVars, resolverVars, listVars, statVars, opOut, wOut,
                   listenArgs, doneChanClosed, doneChClosed, eventChanClosed,
                   fpc, notifs, eventsChClosed, recordsLeft, sending, events, errors>>

\* the forwarder taking a notification with an error for the end of the
\* subscription
forwarderReceive_Fatal ==
    /\ alive
    /\ fpc = "range"
    /\ ~eventsChClosed
    /\ notifs # <<>>
    /\ notifs' = Tail(notifs)
    /\ LET notificationInfo == Head(notifs)
       IN  IF notificationInfo.Err # None
           THEN /\ sending' = None
                /\ fpc' = "exit"
                /\ recordsLeft' = <<>>
           ELSE /\ sending' = None
                /\ fpc' = "records"
                /\ recordsLeft' = notificationInfo.Records
    /\ UNCHANGED <<client, factoryVars, resolverVars, listVars, statVars, opOut, wOut,
                   listenArgs, doneChanClosed, doneChClosed, eventChanClosed,
                   errorChanClosed, supc, eventsChClosed, events, errors>>

\* the subscription hands its next notification to the forwarder, which
\* sends its error or turns to its records
forwarderReceive ==
    /\ alive
    /\ fpc = "range"
    /\ ~eventsChClosed
    /\ notifs # <<>>
    /\ notifs' = Tail(notifs)
    /\ LET notificationInfo == Head(notifs)
       IN  IF notificationInfo.Err # None
           THEN /\ sending' = probeNewError(notificationInfo.Err)
                /\ fpc' = "sendError"
                /\ recordsLeft' = <<>>
           ELSE /\ sending' = None
                /\ fpc' = "records"
                /\ recordsLeft' = notificationInfo.Records
    /\ UNCHANGED <<client, factoryVars, resolverVars, listVars, statVars, opOut, wOut,
                   listenArgs, doneChanClosed, doneChClosed, eventChanClosed,
                   errorChanClosed, supc, eventsChClosed, events, errors>>

\* the subscription, its doneCh closed, closes eventsCh
subscriptionEnd ==
    /\ alive
    /\ listenArgs # None
    /\ doneChClosed
    /\ ~eventsChClosed
    /\ eventsChClosed' = TRUE
    /\ UNCHANGED <<client, factoryVars, resolverVars, listVars, statVars, opOut, wOut,
                   listenArgs, doneChanClosed, doneChClosed, eventChanClosed,
                   errorChanClosed, supc, fpc, notifs, recordsLeft, sending,
                   events, errors>>

\* the forwarder finds eventsCh closed: its loop and the task end
forwarderExit ==
    /\ alive
    /\ fpc = "range"
    /\ eventsChClosed
    /\ fpc' = "exit"
    /\ UNCHANGED <<client, factoryVars, resolverVars, listVars, statVars, opOut, wOut,
                   listenArgs, doneChanClosed, doneChClosed, eventChanClosed,
                   errorChanClosed, supc, notifs, eventsChClosed, recordsLeft,
                   sending, events, errors>>

\* where the forwarder goes after it has looked at a record
nextOf(to) ==
    IF to = "eventChan" THEN "sendEvent"
    ELSE IF to = "errorChan" THEN "sendError" ELSE "records"

\* the forwarder turns to the next record of the notification
forwarderNextRecord ==
    /\ alive
    /\ fpc = "records"
    /\ \/ /\ recordsLeft = <<>>
          /\ fpc' = "range"
          /\ UNCHANGED <<recordsLeft, sending>>
       \/ /\ recordsLeft # <<>>
          /\ recordsLeft' = Tail(recordsLeft)
          /\ sending' = forwarded[client, Head(recordsLeft)].value
          /\ fpc' = nextOf(forwarded[client, Head(recordsLeft)].to)
    /\ UNCHANGED <<client, factoryVars, resolverVars, listVars, statVars, opOut, wOut,
                   listenArgs, doneChanClosed, doneChClosed, eventChanClosed,
                   errorChanClosed, supc, notifs, eventsChClosed, events, errors>>

\* the caller receives the event the forwarder is sending
ReceiveEvent ==
    /\ alive
    /\ fpc = "sendEvent"
    /\ ~eventChanClosed
    /\ events' = Append(events, sending)
    /\ sending' = None
    /\ fpc' = "records"
    /\ UNCHANGED <<client, factoryVars, resolverVars, listVars, statVars, opOut, wOut,
                   listenArgs, doneChanClosed, doneChClosed, eventChanClosed,
                   errorChanClosed, supc, notifs, eventsChClosed, recordsLeft,
                   errors>>

\* the caller receives the error the forwarder is sending
ReceiveError ==
    /\ alive
    /\ fpc = "sendError"
    /\ ~errorChanClosed
    /\ errors' = Append(errors, sending)
    /\ sending' = None
    /\ fpc' = "records"
    /\ UNCHANGED <<client, factoryVars, resolverVars, listVars, statVars, opOut, wOut,
                   listenArgs, doneChanClosed, doneChClosed, eventChanClosed,
                   errorChanClosed, supc, notifs, eventsChClosed, recordsLeft,
                   events>>

\* the forwarder is sending on a channel the supervisor has closed: the
\* send panics and the program ends
forwarderPanic ==
    /\ alive
    /\ \/ fpc = "sendEvent" /\ eventChanClosed
       \/ fpc = "sendError" /\ errorChanClosed
    /\ fpc' = "panic"
    /\ UNCHANGED <<client, factoryVars, resolverVars, listVars, statVars, opOut, wOut,
                   listenArgs, doneChanClosed, doneChClosed, eventChanClosed,
                   errorChanClosed, supc, notifs, eventsChClosed, recordsLeft,
                   sending, events, errors>>

InitWatch ==
    /\ FactoryIdle
    /\ client \in WatchTargets
    /\ ResolverIdle
    /\ ListIdle
    /\ StatIdle
    /\ OpsIdle
    /\ wOut = None
    /\ listenArgs = None
    /\ doneChanClosed = FALSE
    /\ doneChClosed = FALSE
    /\ eventChanClosed = FALSE
    /\ errorChanClosed = FALSE
    /\ supc = "idle"
    /\ fpc = "idle"
    /\ notifs \in UNION {[1..n -> Notifications] : n \in 0..MaxNotifs}
    /\ eventsChClosed = FALSE
    /\ recordsLeft = <<>>
    /\ sending = None
    /\ events = <<>>
    /\ errors = <<>>

supervisor ==
    supervisorCloseDoneCh \/ supervisorCloseEventChan \/ supervisorCloseErrorChan

forwarder == forwarderNextRecord \/ forwarderExit \/ forwarderPanic

NextWatch ==
    \/ WatchCall
    \/ CloseDone
    \/ supervisor
    \/ forwarderReceive
    \/ subscriptionEnd
    \/ forwarder
    \/ ReceiveEvent
    \/ ReceiveError

SpecWatch == InitWatch /\ [][NextWatch]_vars

\* the scheduler runs a task that can run, and the subscription honours
\* its done channel; the caller and the events of the backend are free
FairSpecWatch ==
    /\ SpecWatch
    /\ WF_vars(supervisor)
    /\ WF_vars(forwarder)
    /\ WF_vars(subscriptionEnd)

\* C1: once the caller has closed the done signal, the event stream and
\* the error stream both get closed, and nothing is delivered on a stream
\* after it is closed.
C1_CancelClosesStreams ==
    /\ doneChanClosed ~> (eventChanClosed /\ errorChanClosed)
    /\ [][(eventChanClosed => events' = events)
          /\ (errorChanClosed => errors' = errors)]_vars

\* C25: the forwarder is never at a send, nor inside one, on eventChan or on
\* errorChan once the supervisor has closed that channel: closing the done
\* signal while a notification is forwarded gives no send on a closed
\* channel.
C25_NoSendOnClosedChannel ==
    /\ ~(fpc = "sendEvent" /\ eventChanClosed)
    /\ ~(fpc = "sendError" /\ errorChanClosed)
    /\ alive

\* the caller reads both streams, and the subscription delivers what it has
FairSpecWatchRead ==
    /\ FairSpecWatch
    /\ WF_vars(forwarderReceive)
    /\ WF_vars(ReceiveEvent)
    /\ WF_vars(ReceiveError)

\* what the forwarder sends for a list of records: on errorChan, on eventChan
errorsOfRecords(records) ==
    Map(LAMBDA r : forwarded[client, r].value,
        SelectSeq(records, LAMBDA r : forwarded[client, r].to = "errorChan"))

eventsOfRecords(records) ==
    Map(LAMBDA r : forwarded[client, r].value,
        SelectSeq(records, LAMBDA r : forwarded[client, r].to = "eventChan"))

\* what is due on the error stream and on the event stream for a list of
\* notifications: the error of a notification that carries one, else what
\* its records give
RECURSIVE errorsDue(_)
errorsDue(ns) ==
    IF ns = <<>> THEN <<>>
    ELSE (IF Head(ns).Err # None THEN <<probeNewError(Head(ns).Err)>>
          ELSE errorsOfRecords(Head(ns).Records)) \o errorsDue(Tail(ns))

RECURSIVE eventsDue(_)
eventsDue(ns) ==
    IF ns = <<>> THEN <<>>
    ELSE (IF Head(ns).Err # None THEN <<>> ELSE eventsOfRecords(Head(ns).Records))
             \o eventsDue(Tail(ns))

\* the errors and the events delivered, being sent and still due
allErrors ==
    errors \o (IF fpc = "sendError" THEN <<sending>> ELSE <<>>)
           \o errorsOfRecords(recordsLeft) \o errorsDue(notifs)

allEvents ==
    events \o (IF fpc = "sendEvent" THEN <<sending>> ELSE <<>>)
           \o eventsOfRecords(recordsLeft) \o eventsDue(notifs)

\* C18: while the done signal is not closed, a notification with an error
\* goes to the error stream and not to the event stream (what is delivered,
\* sent and due on each stream stays the same at every step), and the watch
\* keeps running: with a caller that reads both streams, every notification
\* of the subscription gets processed.
C18_ErrorNotificationNotFatal ==
    /\ [][~doneChanClosed' => (allErrors' = allErrors /\ allEvents' = allEvents)]_vars
    /\ (fpc # "idle") ~> (doneChanClosed \/ (notifs = <<>> /\ fpc = "range"))

\* C18 happens: the error of a notification was delivered and the forwarder
\* is sending the event of a later one
C18_Witness ==
    /\ ~doneChanClosed
    /\ errors = <<probeNewError(ErrorResponse("InternalError"))>>
    /\ events = <<>>
    /\ fpc = "sendEvent"

\* the arguments C8 is about: an object key in the target, a prefix, put
conflicting ==
    /\ wOut # None
    /\ url2BucketAndObject(client).objectName # <<>>
    /\ wOut.params.prefix # <<>>
    /\ wOut.params.events = <<"put">>

notStarted == listenArgs = None /\ supc = "idle" /\ fpc = "idle"

\* C8 as stated: Watch on a target with an object key, with a prefix and
\* events = {"put"}, returns InvalidArgument, has not called
\* ListenBucketNotification and has started no task.
C8_ConflictIsInvalidArgument ==
    conflicting => (wOut.err = errInvalidArgument /\ notStarted)

\* C8 amended: it does when the bucket name of the target is valid; for an
\* invalid bucket name Watch returns the error of isValidBucketName, the
\* subscription and the tasks not started either.
C8_ConflictOnValidBucketIsInvalidArgument ==
    conflicting =>
        /\ notStarted
        /\ wOut.err = IF isValidBucketName(url2BucketAndObject(client).bucketName) = None
                      THEN errInvalidArgument
                      ELSE isValidBucketName(url2BucketAndObject(client).bucketName)

C8_Witness ==
    /\ conflicting
    /\ isValidBucketName(url2BucketAndObject(client).bucketName) = None
    /\ wOut.err = errInvalidArgument
    /\ notStarted

\* the arguments C19 is about: an event name that is neither put nor delete
unsupported ==
    /\ wOut # None
    /\ \E i \in 1..Len(wOut.params.events) :
           wOut.params.events[i] \notin {"put", "delete"}

\* C19 as stated: Watch with an event name other than put and delete
\* returns InvalidArgument, has opened no subscription and started no task.
C19_UnsupportedEventIsInvalidArgument ==
    unsupported => (wOut.err = errInvalidArgument /\ notStarted)

\* C19 amended: it does when the bucket name of the target is valid; for an
\* invalid bucket name Watch returns the error of isValidBucketName, with no
\* subscription opened and no task started either.
C19_UnsupportedEventOnValidBucket ==
    unsupported =>
        /\ notStarted
        /\ isValidBucketName(url2BucketAndObject(client).bucketName) = None
               => wOut.err = errInvalidArgument
        /\ isValidBucketName(url2BucketAndObject(client).bucketName) # None
               => wOut.err = isValidBucketName(url2BucketAndObject(client).bucketName)

C19_Witness ==
    /\ unsupported
    /\ wOut.params.events = <<"put", "get">>
    /\ isValidBucketName(url2BucketAndObject(client).bucketName) = None
    /\ wOut.err = errInvalidArgument
    /\ notStarted

\* the forwarder takes the next record of a notification
takesRecord == fpc = "records" /\ recordsLeft # <<>> /\ recordsLeft' = Tail(recordsLeft)

\* after the step the forwarder is sending one event of the kind on eventChan
sendsEvent(kind) == fpc' = "sendEvent" /\ sending' # None /\ sending'.Type = kind

\* what C20 has the forwarder do with the record it takes
byEventName ==
    LET name == Head(recordsLeft).EventName
    IN  IF HasPrefix(name, <<"s3:ObjectCreated:">>) THEN sendsEvent(EventCreate)
        ELSE IF HasPrefix(name, <<"s3:ObjectRemoved:">>) THEN sendsEvent(EventRemove)
        ELSE fpc' = "records" /\ sending' = None

\* C20 as stated: of the records of a notification without an error, taken
\* in their order, the forwarder sends one event for a record whose name
\* starts with s3:ObjectCreated: (Create) or s3:ObjectRemoved: (Remove), and
\* nothing on either stream for a record of any other name.
C20_OneEventPerRecord ==
    [][takesRecord => byEventName]_vars

\* C20 amended: it does for a record whose key unescapes; for a record whose
\* key does not, whatever its name, it sends the error of the unescaping on
\* the error stream and no event.
C20_OneEventPerRecordOfGoodKey ==
    [][takesRecord =>
          IF QueryUnescape(Head(recordsLeft).S3.Object.Key).err = None
          THEN byEventName
          ELSE /\ fpc' = "sendError"
               /\ sending'
                      = probeNewError(QueryUnescape(Head(recordsLeft).S3.Object.Key).err)]_vars

\* C20 happens: the records of a notification are used up, the event of an
\* s3:ObjectRemoved: record was the last one delivered, no error was sent
C20_Witness ==
    /\ events # <<>>
    /\ events[Len(events)].Type = EventRemove
    /\ errors = <<>>
    /\ recordsLeft = <<>>
    /\ fpc = "records"

(***************************************************************************)
(* The notification configuration, Unwatch and MakeBucket: what each       *)
(* returns and the backend calls it has made when it returns.              *)
(***************************************************************************)
\* strings.Split(s, sep): the pieces of s between the separators
RECURSIVE Split(_, _)
Split(s, sp) ==
    LET i == Index(s, <<sp>>)
    IN  IF i = -1 THEN <<s>> ELSE <<Take(s, i)>> \o Split(Drop(s, i + 1), sp)

outcome(err, calls) == [err |-> err, calls |-> calls]

\* AddNotificationConfig, with the errors GetBucketNotification and
\* SetBucketNotification return
AddNotificationConfig(c, arn, names, getErr, setErr) ==
    LET bucket == url2BucketAndObject(c).bucketName
        fields == Split(arn, ":")
    IN  IF isValidBucketName(bucket) # None THEN outcome(isValidBucketName(bucket), <<>>)
        ELSE IF Len(fields) # 6 THEN outcome(errInvalidArgument, <<>>)
        ELSE IF getErr # None
        THEN outcome(probeNewError(getErr), <<"GetBucketNotification">>)
        ELSE IF watchEvents(names, <<>>).err # None
        THEN outcome(errInvalidArgument, <<"GetBucketNotification">>)
        ELSE IF fields[3] \notin {<<"sns">>, <<"sqs">>, <<"lambda">>}
        THEN outcome(errInvalidArgument, <<"GetBucketNotification">>)
        ELSE outcome(IF setErr # None THEN probeNewError(setErr) ELSE None,
                     <<"GetBucketNotification", "SetBucketNotification">>)

\* RemoveNotificationConfig, with the errors of its backend calls
RemoveNotificationConfig(c, arn, getErr, setErr) ==
    LET bucket == url2BucketAndObject(c).bucketName
        fields == Split(arn, ":")
    IN  IF isValidBucketName(bucket) # None THEN outcome(isValidBucketName(bucket), <<>>)
        ELSE IF arn = <<>>
        THEN outcome(IF setErr # None THEN probeNewError(setErr) ELSE None,
                     <<"RemoveAllBucketNotification">>)
        ELSE IF getErr # None
        THEN outcome(probeNewError(getErr), <<"GetBucketNotification">>)
        ELSE IF Len(fields) # 6
        THEN outcome(errInvalidArgument, <<"GetBucketNotification">>)
        ELSE IF fields[3] \notin {<<"sns">>, <<"sqs">>, <<"lambda">>}
        THEN outcome(errInvalidArgument, <<"GetBucketNotification">>)
        ELSE outcome(IF setErr # None THEN probeNewError(setErr) ELSE None,
                     <<"GetBucketNotification", "SetBucketNotification">>)

Unwatch(c) == outcome(isValidBucketName(url2BucketAndObject(c).bucketName), <<>>)

\* MakeBucket, with the error the backend's MakeBucket returns
MakeBucket(c, e) ==
    LET bo == url2BucketAndObject(c)
    IN  IF bo.objectName # <<>> THEN outcome(probeNewError(BucketNameTopLevel), <<>>)
        ELSE IF isValidBucketName(bo.bucketName) # None
        THEN outcome(isValidBucketName(bo.bucketName), <<>>)
        ELSE outcome(IF e # None THEN probeNewError(e) ELSE None, <<"MakeBucket">>)

\* the ARNs of the callers: a topic, an unsupported service, five fields only
\* and the empty ARN; a field is written as one element
snsArn == <<"arn", ":", "minio", ":", "sns", ":", "us-east-1", ":", "1", ":", "webhook">>

otherArn == <<"arn", ":", "minio", ":", "ses", ":", "us-east-1", ":", "1", ":", "webhook">>

shortArn == <<"arn", ":", "minio", ":", "sqs", ":", "us-east-1", ":", "1">>

Arns == {snsArn, otherArn, shortArn, <<>>}

EventLists == {<<"put">>, <<"put", "delete">>, <<"get">>, <<"put", "get">>}

CallErrors == {None, ErrorResponse("InternalError")}

configured(op, args, out) ==
    [op |-> op, args |-> args, err |-> out.err, calls |-> out.calls]

AddNotificationConfigCall ==
    /\ opOut = None
    /\ \E arn \in Arns, names \in EventLists, getErr \in CallErrors, setErr \in CallErrors :
           opOut' = configured("AddNotificationConfig",
                               [arn |-> arn, events |-> names, getErr |-> getErr,
                                setErr |-> setErr],
                               AddNotificationConfig(client, arn, names, getErr, setErr))
    /\ UNCHANGED <<client, factoryVars, resolverVars, listVars, statVars, watchVars>>

RemoveNotificationConfigCall ==
    /\ opOut = None
    /\ \E arn \in Arns, getErr \in CallErrors, setErr \in CallErrors :
           opOut' = configured("RemoveNotificationConfig",
                               [arn |-> arn, getErr |-> getErr, setErr |-> setErr],
                               RemoveNotificationConfig(client, arn, getErr, setErr))
    /\ UNCHANGED <<client, factoryVars, resolverVars, listVars, statVars, watchVars>>

UnwatchCall ==
    /\ opOut = None
    /\ opOut' = configured("Unwatch", [none |-> TRUE], Unwatch(client))
    /\ UNCHANGED <<client, factoryVars, resolverVars, listVars, statVars, watchVars>>

\* MakeBucket as one call: when the backend's MakeBucket is called and
\* succeeds the service has the bucket
MakeBucketCall ==
    /\ opOut = None
    /\ \E e \in CallErrors :
           LET made == MakeBucket(client, e)
           IN  /\ opOut' = configured("MakeBucket", [e |-> e], made)
               /\ backend' = IF made.err = None /\ made.calls # <<>>
                             THEN serviceWithBucket(url2BucketAndObject(client).bucketName)
                             ELSE backend
    /\ UNCHANGED <<client, factoryVars, resolverVars, listingVars, statVars, watchVars>>

\* Watch up to its return, the subscription it has opened being its one
\* backend call: when it returns no error the two tasks are started
WatchValidation ==
    /\ opOut = None
    /\ wOut = None
    /\ \E names \in EventLists, prefix \in {<<>>, <<"p">>} :
           LET params == [events |-> names, prefix |-> prefix, suffix |-> <<>>]
               w == Watch(client, params)
           IN  /\ opOut' = configured("Watch", params,
                                      outcome(w.err,
                                              IF w.listen = None THEN <<>>
                                              ELSE <<"ListenBucketNotification">>))
               /\ wOut' = [params |-> params, err |-> w.err]
               /\ listenArgs' = w.listen
               /\ supc' = IF w.err = None THEN "wait" ELSE "idle"
               /\ fpc' = IF w.err = None THEN "range" ELSE "idle"
    /\ UNCHANGED <<client, factoryVars, resolverVars, listVars, statVars, doneChanClosed,
                   doneChClosed, eventChanClosed, errorChanClosed, notifs,
                   eventsChClosed, recordsLeft, sending, events, errors>>

ConfigTargets ==
    {s3New(customHostName, <<"/">> \o bkt),
     s3New(customHostName, <<"/">> \o bkt \o <<"/", "o">>),
     s3New(customHostName, <<"/", "B", "K">>)}

InitConfig ==
    /\ FactoryIdle
    /\ client \in ConfigTargets
    /\ ResolverIdle
    /\ ListIdle
    /\ StatIdle
    /\ OpsIdle
    /\ WatchIdle

NextConfig ==
    \/ AddNotificationConfigCall
    \/ RemoveNotificationConfigCall
    \/ UnwatchCall
    \/ MakeBucketCall
    \/ WatchValidation

SpecConfig == InitConfig /\ [][NextConfig]_vars

\* the errors of validation: of the bucket name, of an event name, of
\* conflicting watch parameters, of the ARN
validationError ==
    /\ opOut # None
    /\ opOut.err # None
    /\ \/ opOut.err = errInvalidArgument
       \/ opOut.err = isValidBucketName(url2BucketAndObject(client).bucketName)

\* C12: when AddNotificationConfig, RemoveNotificationConfig, Watch, Unwatch
\* or MakeBucket returns an error of validation (bucket name, event name,
\* conflicting watch parameters, malformed ARN), the call has invoked no
\* backend operation.
C12_ValidationBeforeBackend ==
    validationError => opOut.calls = <<>>


(***************************************************************************)
(* One handle under all its operations: List, Stat, Get, Put, Copy, Remove *)
(* and Watch called on it in any order, their tasks interleaved.           *)
(***************************************************************************)
AddressTarget == s3New(customHostName, <<"/">> \o bkt)

AddressRoot == s3New(customHostName, <<"/">>)

AddressBackend ==
    [noBackend EXCEPT !.buckets = <<bucketInfo(bkt, "bkt")>>,
                      !.keys = <<<<keyA>>>>, !.uploads = <<<<keyA>>>>]

InitAddress ==
    /\ FactoryIdle
    /\ client \in {AddressTarget, AddressRoot}
    /\ ResolverIdle
    /\ backend = AddressBackend
    /\ mutex = "free"
    /\ lpc = "idle"
    /\ routine = ""
    /\ ppc = "idle"
    /\ after = ""
    /\ bucketsLeft = <<>>
    /\ curBucket = <<>>
    /\ entriesLeft = <<>>
    /\ offer = None
    /\ chClosed = FALSE
    /\ received = <<>>
    /\ log = <<>>
    /\ StatIdle
    /\ OpsIdle
    /\ wOut = None
    /\ listenArgs = None
    /\ doneChanClosed = FALSE
    /\ doneChClosed = FALSE
    /\ eventChanClosed = FALSE
    /\ errorChanClosed = FALSE
    /\ supc = "idle"
    /\ fpc = "idle"
    /\ notifs = <<[Err |-> None, Records |-> <<badKeyRecord, createdRecord>>]>>
    /\ eventsChClosed = FALSE
    /\ recordsLeft = <<>>
    /\ sending = None
    /\ events = <<>>
    /\ errors = <<>>

NextAddress ==
    \/ NextList
    \/ StatEnter
    \/ StatReturn
    \/ GetCall
    \/ PutCall
    \/ CopyCall
    \/ RemoveCall
    \/ NextWatch

SpecAddress == InitAddress /\ [][NextAddress]_vars

\* C23: the target address of the handle (scheme, host, path, separator) is
\* the same after every step of List, Stat, Watch, Get, Put, Copy and Remove
\* and of their tasks, in any order: the paths of the items and events are
\* written on copies.
C23_TargetAddressUnchanged ==
    [][client'.targetURL = client.targetURL]_vars

\* C23 happens: a listing has delivered an item and the watch an event, each
\* with a path of its own, Stat and an object operation have returned, and
\* the handle has the address it was made with
C23_Witness ==
    /\ client.targetURL = AddressTarget.targetURL
    /\ \E i \in 1..Len(received) :
           received[i].Err = None /\ received[i].URL.Path # client.targetURL.Path
    /\ \E i \in 1..Len(events) : events[i].Path.Path # client.targetURL.Path
    /\ statOut # None
    /\ opOut # None

(***************************************************************************)
(* The factory: the function newFactory returns, called by several tasks,  *)
(* and the cache of backend clients its calls share.                       *)
(***************************************************************************)
\* a ^ b on numbers of the given number of bits
RECURSIVE xor(_, _, _)
xor(a, b, bits) ==
    IF bits = 0 THEN 0
    ELSE ((a + b) % 2) + 2 * xor(a \div 2, b \div 2, bits - 1)

\* fnv.New32a: a 32-bit sum, kept as its two 16-bit halves, starts at the
\* offset basis 0x811c9dc5
fnvNew32a == [hi |-> 33052, lo |-> 40389]

\* one byte written to the sum: sum ^= byte, then sum *= 0x01000193
\* (2^24 + 403), on 32 bits
fnvWriteByte(sum, byte) ==
    LET lo == (sum.lo \div 256) * 256 + xor(sum.lo % 256, byte, 8)
        low == lo * 403
    IN  [hi |-> (sum.hi * 403 + (low \div 65536) + (lo % 256) * 256) % 65536,
         lo |-> low % 65536]

RECURSIVE fnvWrite(_, _)
fnvWrite(sum, str) ==
    IF str = <<>> THEN sum
    ELSE fnvWrite(fnvWriteByte(sum, byteOf(Head(str))), Tail(str))

\* the host name the backend client is made for: the provider's own host
\* for a virtual-host style address
hostNameOf(host) ==
    LET amazon == IF isVirtualHostStyle(host) /\ isAmazon(host) THEN amazonHostName
                  ELSE host
    IN  IF isVirtualHostStyle(host) /\ isGoogle(amazon) THEN googleHostName
        ELSE amazon

\* confSum: the hash of hostName + config.AccessKey + config.SecretKey
confSumOf(config) ==
    fnvWrite(fnvNew32a, hostNameOf(config.Host) \o config.AccessKey \o config.SecretKey)

\* the configs the factory is called with: bkt on Amazon's virtual host and
\* Amazon's host itself, with three pairs of keys (the first two give the
\* same string when put one after the other)
FactoryKeys ==
    {[AccessKey |-> <<"a", "b">>, SecretKey |-> <<"c">>],
     [AccessKey |-> <<"a">>, SecretKey |-> <<"b", "c">>],
     [AccessKey |-> <<"a", "b">>, SecretKey |-> <<"d">>]}

FactoryConfigs ==
    {[Host |-> host, Path |-> <<"/">> \o bkt,
      AccessKey |-> k.AccessKey, SecretKey |-> k.SecretKey] :
        host \in {virtualHost(bkt, amazonHostName), amazonHostName},
        k \in FactoryKeys}

Calls == 1..MaxCalls

idleCall ==
    [pc |-> "idle", config |-> None, s3Clnt |-> None, confSum |-> None,
     api |-> 0, out |-> None]

\* a call starts: the URL is parsed, the handle is allocated with a new
\* mutex and the URL, the style of the host and the hash are worked out
factoryNew(i) ==
    /\ factoryCalls[i].pc = "idle"
    /\ \E config \in FactoryConfigs :
           factoryCalls' =
               [factoryCalls EXCEPT
                   ![i] = [pc |-> "lock",
                           config |-> config,
                           s3Clnt |-> [targetURL |-> heap + 1,
                                       url |-> newClientURL(config.Host, config.Path),
                                       mutex |-> heap + 2,
                                       virtualStyle |-> isVirtualHostStyle(config.Host),
                                       api |-> 0],
                           confSum |-> confSumOf(config),
                           api |-> 0,
                           out |-> None]]
    /\ heap' = heap + 2
    /\ UNCHANGED <<client, resolverVars, listVars, statVars, opOut, watchVars,
                   clientCache, factoryMutex, constructed>>

\* mutex.Lock() that does not wait for the holder
factoryLock_NoWait(i) ==
    /\ factoryCalls[i].pc = "lock"
    /\ factoryMutex' = i
    /\ factoryCalls' = [factoryCalls EXCEPT ![i].pc = "lookup"]
    /\ UNCHANGED <<client, resolverVars, listVars, statVars, opOut, watchVars,
                   clientCache, heap, constructed>>

\* mutex.Lock() of the factory's mutex
factoryLock(i) ==
    /\ factoryCalls[i].pc = "lock"
    /\ factoryMutex = 0
    /\ factoryMutex' = i
    /\ factoryCalls' = [factoryCalls EXCEPT ![i].pc = "lookup"]
    /\ UNCHANGED <<client, resolverVars, listVars, statVars, opOut, watchVars,
                   clientCache, heap, constructed>>

\* api, found = clientCache[confSum]
factoryLookup(i) ==
    /\ factoryCalls[i].pc = "lookup"
    /\ LET hits == {e \in clientCache : e.confSum = factoryCalls[i].confSum}
       IN  factoryCalls' =
               IF hits = {} THEN [factoryCalls EXCEPT ![i].pc = "instantiate"]
               ELSE [factoryCalls EXCEPT ![i].pc = "store",
                                         ![i].api = (CHOOSE e \in hits : TRUE).api]
    /\ UNCHANGED <<client, resolverVars, listVars, statVars, opOut, watchVars,
                   clientCache, factoryMutex, heap, constructed>>

\* minio.NewV2 / minio.NewV4: a new backend client, or an error, with which
\* the call returns (the deferred Unlock runs)
factoryInstantiate(i) ==
    /\ factoryCalls[i].pc = "instantiate"
    /\ \E e \in {None, ErrorResponse("InvalidArgument")} :
           IF e # None
           THEN /\ factoryCalls' =
                       [factoryCalls EXCEPT
                           ![i].pc = "done",
                           ![i].out = [client |-> None, err |-> probeNewError(e)]]
                /\ factoryMutex' = 0
                /\ UNCHANGED <<heap, constructed>>
           ELSE /\ factoryCalls' = [factoryCalls EXCEPT ![i].pc = "cache",
                                                       ![i].api = heap + 1]
                /\ heap' = heap + 1
                /\ constructed' =
                       Append(constructed,
                              [api |-> heap + 1,
                               hostName |-> hostNameOf(factoryCalls[i].config.Host),
                               confSum |-> factoryCalls[i].confSum])
                /\ UNCHANGED factoryMutex
    /\ UNCHANGED <<client, resolverVars, listVars, statVars, opOut, watchVars,
                   clientCache>>

\* clientCache[confSum] = api
factoryCache(i) ==
    /\ factoryCalls[i].pc = "cache"
    /\ clientCache' =
           {e \in clientCache : e.confSum # factoryCalls[i].confSum}
               \cup {[confSum |-> factoryCalls[i].confSum, api |-> factoryCalls[i].api]}
    /\ factoryCalls' = [factoryCalls EXCEPT ![i].pc = "store"]
    /\ UNCHANGED <<client, resolverVars, listVars, statVars, opOut, watchVars,
                   factoryMutex, heap, constructed>>

\* s3Clnt.api = api; the call returns the handle and the deferred Unlock runs
factoryReturn(i) ==
    /\ factoryCalls[i].pc = "store"
    /\ factoryCalls' =
           [factoryCalls EXCEPT
               ![i].pc = "done",
               ![i].s3Clnt.api = factoryCalls[i].api,
               ![i].out = [client |-> [factoryCalls[i].s3Clnt EXCEPT
                                          !.api = factoryCalls[i].api],
                           err |-> None]]
    /\ factoryMutex' = 0
    /\ UNCHANGED <<client, resolverVars, listVars, statVars, opOut, watchVars,
                   clientCache, heap, constructed>>

InitFactory ==
    /\ client = noClient
    /\ ResolverIdle
    /\ ListIdle
    /\ StatIdle
    /\ OpsIdle
    /\ WatchIdle
    /\ clientCache = {}
    /\ factoryMutex = 0
    /\ factoryCalls = [i \in Calls |-> idleCall]
    /\ heap = 0
    /\ constructed = <<>>

NextFactory ==
    \E i \in Calls :
        \/ factoryNew(i)
        \/ factoryLock(i)
        \/ factoryLookup(i)
        \/ factoryInstantiate(i)
        \/ factoryCache(i)
        \/ factoryReturn(i)

SpecFactory == InitFactory /\ [][NextFactory]_vars

\* the calls that have returned a handle
returnedHandle ==
    {i \in Calls : factoryCalls[i].pc = "done" /\ factoryCalls[i].out.err = None}

handleOf(i) == factoryCalls[i].out.client

\* C24: however the calls of the factory interleave, at most one backend
\* client is made for a hash of host, access key and secret key, the handles
\* returned for one hash have that one backend client, and every handle has
\* a mutex and a target address of its own.
C24_OneBackendClientPerHash ==
    /\ \A j, k \in 1..Len(constructed) :
           constructed[j].confSum = constructed[k].confSum => j = k
    /\ \A i, j \in returnedHandle :
           /\ factoryCalls[i].confSum = factoryCalls[j].confSum =>
                  handleOf(i).api = handleOf(j).api
           /\ i # j => /\ handleOf(i).mutex # handleOf(j).mutex
                       /\ handleOf(i).targetURL # handleOf(j).targetURL
    /\ \A i \in returnedHandle :
           \E k \in 1..Len(constructed) :
               /\ constructed[k].api = handleOf(i).api
               /\ constructed[k].confSum = factoryCalls[i].confSum

\* C24 happens: two calls for different addresses of one hash have returned
\* handles with the one backend client made for it
C24_Witness ==
    /\ returnedHandle = Calls
    /\ \E i, j \in Calls :
           /\ factoryCalls[i].config.Host # factoryCalls[j].config.Host
           /\ factoryCalls[i].confSum = factoryCalls[j].confSum
           /\ handleOf(i).api = handleOf(j).api
           /\ handleOf(i).mutex # handleOf(j).mutex
    /\ Len(constructed) = 1

====
